---- MODULE Spec2Model ----
(***************************************************************************)
(* A model of the sheep-herding game: the run state (GameState), the       *)
(* per-round statistics (RoundStats), the flock, the goal check that       *)
(* scores sheep, the round cycle Herding -> ModifierChoice -> Shop, and    *)
(* the hop movement controller.                                            *)
(*                                                                         *)
(* Lengths are in tenths of a world unit, squared lengths in hundredths,   *)
(* durations in milliseconds.  Random draws are nondeterministic choices.  *)
(***************************************************************************)
EXTENDS Integers, Sequences, FiniteSets, TLC

VARIABLES
    phase,        \* "Title" (Screen::Title) or the GamePhase of Screen::Gameplay
    next_phase,   \* NextState: the requested phase, NoPhase when none is pending
    gs,           \* the GameState resource
    round_stats,  \* the RoundStats resource
    sheep,        \* entity id -> Sheep + Transform, or NoSheep
    pool,         \* colour -> number of sheep still wandering outside the goal radius
    round_info,   \* NewRoundInfo of the modifier choice on screen
    scored,       \* the scorings of the last goal check, in iteration order
    mover,        \* Transform + HopMovementController of one hopping sheep
    shop_offers,  \* the items of the ShopOffers resource
    ufo,          \* the Ufo of the round, or NoUfo
    evasion,      \* one call of pick_evasion_dir: its arguments and its result
    tick          \* the frame under way: the systems still to run, and the herding clock

vars ==
    <<phase, next_phase, gs, round_stats, sheep, pool, round_info, scored, mover,
      shop_offers, ufo, evasion, tick>>

----------------------------------------------------------------------------
(* Bounds of the model *)

\* entity slots of the sheep followed one by one
MaxSheep == 2
\* round advances explored from the start of a run
MaxRounds == 4
\* modifiers of the pool (in declaration order) the random draw may return
NumModifiers == 4
\* whites turned black at a round's spawn
MaxInk == 1
\* hops one mover starts
MaxHops == 2
\* steering steps and teleports of one mover
MaxSteers == 2
\* the value the Dream Catcher may raise max_charms to
MaxCharmSlots == 5
\* sheep of the flock that the Ufo hunts
MaxFollowed == 1
\* sheep that leave the wandering flock in one round
MaxHerded == 3

----------------------------------------------------------------------------
(* Data *)

\* the value of an entity slot that holds no sheep
NoSheep == [state |-> "NoSheep"]

\* no Ufo entity in the world
NoUfo == [target |-> "NoUfo"]

\* Option::None of a vector
NoVec == <<>>

\* pick_evasion_dir not called yet
NoEvasion == [dir |-> "NoEvasion"]

\* the Wander timer of a sheep that is in another state
NoTimer == [finished |-> "NoTimer"]

\* a sheep leaves Wander: the timer of the state goes with it
DropTimer(s) == IF "timer" \in DOMAIN s THEN [s EXCEPT !.timer = NoTimer] ELSE s

\* the value of tick outside the frame-by-frame specification
NoTick == [todo |-> "NoTick"]

NoPhase == "NoPhase"
NoModifier == "NoModifier"

SheepColor == {"White", "Black", "Blue", "Red", "Gold"}
SheepStateTag == {"Wander", "Evading", "Spooked", "BeingCounted", "BeingAbducted"}

ModifierPool ==
    <<"HyperSheep", "MoonGravity", "Ufo", "Space", "TeleportingBark",
      "Vignette", "Night", "SheepSphere", "DogSphere", "FeverDream">>

Modifier == {ModifierPool[i] : i \in 1..Len(ModifierPool)}

\* what the random draw of a modifier may return in the model
DrawnModifiers == {ModifierPool[i] : i \in 1..NumModifiers}

Charm ==
    {"GoldenSheep", "HalfTimeDoubleSheep", "ChanceBlueOnBuy", "ChanceRedOnBuy",
     "Exponential", "WellTrained", "DoubleCountRadius", "Evolution", "Cloning",
     "ShopCount", "Ink", "RedToGold"}

SheepIds == 1..MaxSheep

U16 == 65536

\* LevelBounds, in tenths
BoundsMinX == -276
BoundsMinZ == -396
BoundsMaxX == 276
BoundsMaxZ == 76

GOAL_RADIUS == 60
GOAL_POSITION == <<0, 82>>
\* the squared distance below which a counted sheep is scored: 1.5, in hundredths
GOAL_SCORE_DIST_SQ == 150

DistSq(a, b) == (a[1] - b[1]) * (a[1] - b[1]) + (a[2] - b[2]) * (a[2] - b[2])

Clamp(v, lo, hi) == IF v < lo THEN lo ELSE IF v > hi THEN hi ELSE v

\* a clamp that lets every position through
clamp_to_bounds_off(p) == p

clamp_to_bounds(p) ==
    <<Clamp(p[1], BoundsMinX, BoundsMaxX), Clamp(p[2], BoundsMinZ, BoundsMaxZ)>>

InBounds(p) ==
    /\ BoundsMinX <= p[1] /\ p[1] <= BoundsMaxX
    /\ BoundsMinZ <= p[2] /\ p[2] <= BoundsMaxZ

\* positions a uniform draw inside the bounds may return in the model: two
\* corners, a point at squared distance 0.36 from the goal and one far from it
RandomPositions ==
    {<<BoundsMinX, BoundsMinZ>>, <<BoundsMaxX, BoundsMaxZ>>, <<0, 76>>, <<0, -100>>}

----------------------------------------------------------------------------
(* f32 arithmetic on the integers the score can hold *)

RECURSIVE Pow2(_)
Pow2(n) == IF n = 0 THEN 1 ELSE 2 * Pow2(n - 1)

RECURSIVE Log2Floor(_)
Log2Floor(n) == IF n < 2 THEN 0 ELSE 1 + Log2Floor(n \div 2)

\* n rounded to the nearest multiple of q, ties to the even multiple
RoundToMultiple(n, q) ==
    LET r == n % q
        lo == n - r
    IN  IF 2 * r < q THEN lo
        ELSE IF 2 * r > q THEN lo + q
        ELSE IF (lo \div q) % 2 = 0 THEN lo ELSE lo + q

\* `n as f32`: the nearest value with a 24-bit significand
as_f32(n) ==
    IF n < Pow2(24) THEN n ELSE RoundToMultiple(n, Pow2(Log2Floor(n) - 23))

\* floor(x * 1.5) for an f32 x holding an integer: the product 3x/2 is rounded
\* to a 24-bit significand before the floor
floor_mul_1_5(x) ==
    LET m == 3 * x
        e == Log2Floor(m \div 2)
    IN  IF e <= 22 THEN m \div 2
        ELSE RoundToMultiple(m, 2 * Pow2(e - 23)) \div 2

\* the floor of points * 1.5 in exact arithmetic
RedPointsExact(points) == points + points \div 2

\* floor(points as f32 * 1.5) as u32, for points below 2^29 (the cast does
\* not saturate)
RedPoints(points) == floor_mul_1_5(as_f32(points))

----------------------------------------------------------------------------
(* GameState and RoundStats *)

GameStateDefault ==
    [completed_rounds |-> 0,
     sheep_count |-> 10,
     blue_sheep_count |-> 1,
     red_sheep_count |-> 1,
     black_sheep_count |-> 0,
     gold_sheep_count |-> 0,
     points |-> 0,
     point_target |-> 3,
     active_modifiers |-> <<>>,
     money |-> 0,
     charms |-> <<>>,
     max_charms |-> 4,
     player_bark_radius |-> 120]

RoundStatsDefault ==
    [sheep_counted |-> 0, white_sheep_counted |-> 0, black_sheep_counted |-> 0]

Contains(seq, x) == \E i \in 1..Len(seq) : seq[i] = x

is_modifier_active(g, modifier) == Contains(g.active_modifiers, modifier)

is_charm_active(g, charm) == Contains(g.charms, charm)

charms_full(g) == Len(g.charms) >= g.max_charms

\* u16 arithmetic of the roster tallies (a release build wraps)
Add16(x, n) == (x + n) % U16
Sub16(x, n) == (x - n + U16) % U16

----------------------------------------------------------------------------
(* Scoring one sheep: the body of sheep_goal_check for a BeingCounted sheep  *)
(* closer than the scoring distance.  st = [gs, rs, spawn, texts]: spawn is  *)
(* the number of black sheep queued for spawning, texts the GoalTextMessages *)

CloneTally(g, color) ==
    CASE color = "Blue"  -> [g EXCEPT !.blue_sheep_count = Add16(@, 1)]
      [] color = "Red"   -> [g EXCEPT !.red_sheep_count = Add16(@, 1)]
      [] color = "Black" -> [g EXCEPT !.black_sheep_count = Add16(@, 1)]
      [] color = "Gold"  -> [g EXCEPT !.gold_sheep_count = Add16(@, 1)]
      [] OTHER -> g

\* Cloning that clones every sheep scored
ScoreCloneEvery(st, color) ==
    IF is_charm_active(st.gs, "Cloning")
    THEN [st EXCEPT !.gs = CloneTally([st.gs EXCEPT !.sheep_count = Add16(@, 1)], color),
                    !.texts = Append(@, "Cloned")]
    ELSE st

ScoreClone(st, color) ==
    IF st.rs.sheep_counted = 0 /\ is_charm_active(st.gs, "Cloning")
    THEN [st EXCEPT !.gs = CloneTally([st.gs EXCEPT !.sheep_count = Add16(@, 1)], color),
                    !.texts = Append(@, "Cloned")]
    ELSE st

\* Evolution testing the white counter before it counts the sheep
ScoreWhiteTestFirst(st) ==
    IF is_charm_active(st.gs, "Evolution")
    THEN LET counted == Add16(st.rs.white_sheep_counted, 1)
         IN  IF st.rs.white_sheep_counted % 5 = 0
             THEN [st EXCEPT !.rs.white_sheep_counted = counted,
                             !.gs.blue_sheep_count = Add16(@, 1),
                             !.texts = Append(@, "Evolved to blue")]
             ELSE [st EXCEPT !.rs.white_sheep_counted = counted,
                             !.texts = Append(@, "0 points")]
    ELSE [st EXCEPT !.gs.points = @ + 1, !.texts = Append(@, "+1 point")]

ScoreWhite(st) ==
    IF is_charm_active(st.gs, "Evolution")
    THEN LET counted == Add16(st.rs.white_sheep_counted, 1)
         IN  IF counted % 5 = 0
             THEN [st EXCEPT !.rs.white_sheep_counted = counted,
                             !.gs.blue_sheep_count = Add16(@, 1),
                             !.texts = Append(@, "Evolved to blue")]
             ELSE [st EXCEPT !.rs.white_sheep_counted = counted,
                             !.texts = Append(@, "0 points")]
    ELSE [st EXCEPT !.gs.points = @ + 1, !.texts = Append(@, "+1 point")]

\* a Blue sheep scored like a White one
ScoreBlueAsWhite(st) ==
    [st EXCEPT !.gs.points = @ + 1, !.texts = Append(@, "+1 point")]

ScoreBlue(st) ==
    [st EXCEPT !.gs.points = @ + 5, !.texts = Append(@, "+5 points")]

\* RedToGold that converts every Red sheep scored
ScoreRedConvertAny(st, is_first_counted) ==
    LET g == IF is_charm_active(st.gs, "RedToGold")
             THEN [st.gs EXCEPT !.red_sheep_count = Sub16(@, 1),
                                !.gold_sheep_count = Add16(@, 1)]
             ELSE st.gs
    IN  [st EXCEPT !.gs = [g EXCEPT !.points = RedPoints(@)],
                   !.texts = Append(@, "points x1.5")]

ScoreRed(st, is_first_counted) ==
    LET g == IF is_first_counted /\ is_charm_active(st.gs, "RedToGold")
             THEN [st.gs EXCEPT !.red_sheep_count = Sub16(@, 1),
                                !.gold_sheep_count = Add16(@, 1)]
             ELSE st.gs
    IN  [st EXCEPT !.gs = [g EXCEPT !.points = RedPoints(@)],
                   !.texts = Append(@, "points x1.5")]

ScoreBlack(st) ==
    [st EXCEPT !.rs.black_sheep_counted = Add16(@, 1),
               !.gs.points = @ + 1,
               !.texts = Append(@, "+1 point"),
               !.spawn = IF is_charm_active(st.gs, "Exponential") THEN @ + 2 ELSE @]

ScoreGold(st) ==
    [st EXCEPT !.gs.money = @ + 1, !.texts = Append(@, "+1 gold")]

ScoreColor(st, color, is_first_counted) ==
    CASE color = "White" -> ScoreWhite(st)
      [] color = "Blue"  -> ScoreBlue(st)
      [] color = "Red"   -> ScoreRed(st, is_first_counted)
      [] color = "Black" -> ScoreBlack(st)
      [] color = "Gold"  -> ScoreGold(st)

ScoreSheep(st, color) ==
    LET is_first_counted == st.rs.sheep_counted = 0
        s == ScoreColor(ScoreClone(st, color), color, is_first_counted)
    IN  [s EXCEPT !.rs.sheep_counted = Add16(@, 1)]

----------------------------------------------------------------------------
(* The flock *)

Sheep(state, color, pos) == [state |-> state, color |-> color, pos |-> pos]

NoFlock == [e \in SheepIds |-> NoSheep]

EmptyPool == [c \in SheepColor |-> 0]

Alive(flock) == {e \in SheepIds : flock[e] # NoSheep}

\* the orders in which a query may visit the entities of S
Orders(S) ==
    {f \in [1..Cardinality(S) -> S] : \A i, j \in 1..Cardinality(S) : f[i] = f[j] => i = j}

----------------------------------------------------------------------------
(* sheep_goal_check.  ck = [gs, rs, spawn, texts, flock, despawn, log] is    *)
(* the state of the loop: despawn holds the entities queued for despawning   *)

GoalScore(ck, e) ==
    LET color == ck.flock[e].color
        before == [gs |-> ck.gs, rs |-> ck.rs, spawn |-> ck.spawn, texts |-> <<>>]
        after == ScoreSheep(before, color)
    IN  [ck EXCEPT !.gs = after.gs,
                   !.rs = after.rs,
                   !.spawn = after.spawn,
                   !.texts = @ \o after.texts,
                   !.despawn = @ \cup {e},
                   !.log = Append(@, [entity |-> e,
                                      sheep |-> ck.flock[e],
                                      before |-> [gs |-> ck.gs, rs |-> ck.rs],
                                      after |-> [gs |-> after.gs, rs |-> after.rs],
                                      spawned |-> after.spawn - ck.spawn,
                                      texts |-> after.texts])]

\* sheep_c.state = SheepState::BeingCounted: the payload of the state before
\* goes with it
BeCounted(s) ==
    IF "danger_pos" \in DOMAIN s
    THEN DropTimer([s EXCEPT !.state = "BeingCounted", !.danger_pos = NoVec])
    ELSE [s EXCEPT !.state = "BeingCounted"]

\* a visit that treats an abducted sheep like any other outside the count
GoalVisitAbducted(ck, e) ==
    LET s == ck.flock[e]
        d == DistSq(s.pos, GOAL_POSITION)
    IN  CASE s.state = "BeingCounted" ->
                IF d < GOAL_SCORE_DIST_SQ THEN GoalScore(ck, e) ELSE ck
          [] OTHER ->
                IF d < GOAL_RADIUS * GOAL_RADIUS
                THEN [ck EXCEPT !.flock[e] = BeCounted(@)]
                ELSE ck

\* one iteration of the loop of sheep_goal_check over the query
GoalVisit(ck, e) ==
    LET s == ck.flock[e]
        d == DistSq(s.pos, GOAL_POSITION)
    IN  CASE s.state = "BeingAbducted" -> ck
          [] s.state = "BeingCounted" ->
                IF d < GOAL_SCORE_DIST_SQ THEN GoalScore(ck, e) ELSE ck
          [] OTHER ->
                IF d < GOAL_RADIUS * GOAL_RADIUS
                THEN [ck EXCEPT !.flock[e] = BeCounted(@)]
                ELSE ck

RECURSIVE GoalLoop(_, _, _)
GoalLoop(ck, order, i) ==
    IF i > Len(order) THEN ck ELSE GoalLoop(GoalVisit(ck, order[i]), order, i + 1)

\* a goal check that leaves the scored sheep in the world
sheep_goal_check_keep(g, rs, flock, order) ==
    GoalLoop([gs |-> g, rs |-> rs, spawn |-> 0, texts |-> <<>>,
              flock |-> flock, despawn |-> {}, log |-> <<>>], order, 1)

\* the loop over the query, then the queued commands: the despawns
sheep_goal_check(g, rs, flock, order) ==
    LET ck == GoalLoop([gs |-> g, rs |-> rs, spawn |-> 0, texts |-> <<>>,
                        flock |-> flock, despawn |-> {}, log |-> <<>>], order, 1)
    IN  [ck EXCEPT !.flock = [e \in SheepIds |-> IF e \in ck.despawn THEN NoSheep ELSE @[e]]]

----------------------------------------------------------------------------
(* Round advance *)

MAX_PICK_ATTEMPTS == 100

\* the while loop of pick_random_modifiers: running holds the values of
\* choices the loop may have when it tests its condition for the
\* (attempts + 1)-th time, done the values it may have returned already.
\* Once an iteration changes neither set no later one does, and the values
\* still running are those the exhausted attempts return.
RECURSIVE PickLoop(_, _, _, _, _)
PickLoop(active, count, running, done, attempts) ==
    IF running = {} THEN done
    ELSE IF attempts >= MAX_PICK_ATTEMPTS THEN done \cup running
    ELSE LET cont == {c \in running : Len(c) < count}
             drawn == {IF Contains(active, cm[2]) \/ Contains(cm[1], cm[2])
                       THEN cm[1] ELSE Append(cm[1], cm[2]) :
                       cm \in cont \X DrawnModifiers}
             returned == done \cup (running \ cont)
         IN  IF drawn = running /\ returned = done THEN done \cup running
             ELSE PickLoop(active, count, drawn, returned, attempts + 1)

\* the values pick_random_modifiers may return
pick_random_modifiers(g, count) ==
    PickLoop(g.active_modifiers, count, {<<>>}, {}, 0)

\* a round advance that evicts no modifier
new_round_keep(g) ==
    [gs |-> [g EXCEPT !.completed_rounds = @ + 1,
                      !.points = 0,
                      !.point_target = @ + 2 + (@ \div 10)],
     removed_modifier |-> NoModifier]

\* new_round that raises the target by 2 only
new_round_flat(g) ==
    LET g1 == [g EXCEPT !.completed_rounds = @ + 1,
                        !.points = 0,
                        !.point_target = @ + 2]
    IN  IF Len(g1.active_modifiers) > 2
        THEN [gs |-> [g1 EXCEPT !.active_modifiers = Tail(@)],
              removed_modifier |-> Head(g1.active_modifiers)]
        ELSE [gs |-> g1, removed_modifier |-> NoModifier]

\* a round advance that leaves the points of the round in place
new_round_keep_points(g) ==
    LET g1 == [g EXCEPT !.completed_rounds = @ + 1,
                        !.point_target = @ + 2 + (@ \div 10)]
    IN  IF Len(g1.active_modifiers) > 2
        THEN [gs |-> [g1 EXCEPT !.active_modifiers = Tail(@)],
              removed_modifier |-> Head(g1.active_modifiers)]
        ELSE [gs |-> g1, removed_modifier |-> NoModifier]

\* new_round up to the draw of the choices: [gs, removed_modifier]
new_round(g) ==
    LET g1 == [g EXCEPT !.completed_rounds = @ + 1,
                        !.points = 0,
                        !.point_target = @ + 2 + (@ \div 10)]
    IN  IF Len(g1.active_modifiers) > 2
        THEN [gs |-> [g1 EXCEPT !.active_modifiers = Tail(@)],
              removed_modifier |-> Head(g1.active_modifiers)]
        ELSE [gs |-> g1, removed_modifier |-> NoModifier]

NoRoundInfo == [removed_modifier |-> NoModifier, modifier_choices |-> <<>>]

difficulty(modifier) ==
    CASE modifier \in {"HyperSheep", "DogSphere"} -> "Easy"
      [] modifier \in {"MoonGravity", "Night", "SheepSphere"} -> "Medium"
      [] OTHER -> "Hard"

coins_given(d) ==
    CASE d = "Easy" -> 4
      [] d = "Medium" -> 5
      [] d = "Hard" -> 6

----------------------------------------------------------------------------
(* Round start *)

Repeat(x, n) == [i \in 1..n |-> x]

Count(seq, x) == Cardinality({i \in 1..Len(seq) : seq[i] = x})

\* a roster that has a Red sheep whatever red_sheep_count says
build_sheep_colors_a_red(g) ==
    <<"Red", "Blue", "Blue">> \o Repeat("White", g.sheep_count - 3)

build_sheep_colors(g) ==
    LET double == is_charm_active(g, "HalfTimeDoubleSheep")
        total_sheep == IF double THEN g.sheep_count * 2 ELSE g.sheep_count
        n(count) == IF double THEN count * 2 ELSE count
        colored == Repeat("Blue", n(g.blue_sheep_count))
                   \o Repeat("Red", n(g.red_sheep_count))
                   \o Repeat("Black", n(g.black_sheep_count))
                   \o Repeat("Gold", n(g.gold_sheep_count))
        colors == IF Len(colored) > total_sheep
                  THEN SubSeq(colored, 1, total_sheep) ELSE colored
        white_count == IF total_sheep > Len(colors) THEN total_sheep - Len(colors) ELSE 0
    IN  colors \o Repeat("White", white_count)

\* the colours on_herding spawns, as a tally: ink of the whites spawn black
SpawnTally(g, ink) ==
    LET colors == IF g.sheep_count = 0 THEN <<>>
                  ELSE build_sheep_colors(g)
                       \o (IF is_charm_active(g, "GoldenSheep") THEN <<"Gold">> ELSE <<>>)
    IN  [c \in SheepColor |->
            CASE c = "White" -> Count(colors, c) - ink
              [] c = "Black" -> Count(colors, c) + ink
              [] OTHER -> Count(colors, c)]

Min(a, b) == IF a < b THEN a ELSE b

\* how many whites the spawn may turn black
InkChoices(g) ==
    IF g.sheep_count = 0 THEN {0}
    ELSE 0..Min(MaxInk, Count(build_sheep_colors(g), "White"))

----------------------------------------------------------------------------
(* The hop movement controller of one sheep.  Timers count milliseconds,   *)
(* speed multipliers are in hundredths, heights in thousandths.            *)

NoMover == [airborne |-> "NoMover"]

\* frame times, in milliseconds
FrameDeltas == {40, 120}

\* displacements the steering adds to the intent in one frame (direction *
\* move_speed_mult), in tenths: the first has squared length 0.18, below the
\* hop threshold
MoveDeltas == {<<3, 3>>, <<5, 5>>, <<600, 0>>, <<-600, 0>>, <<0, 500>>, <<0, -500>>}

HOP_THRESHOLD_SQ == 40

\* bevy's Timer in TimerMode::Once
Timer(duration) == [elapsed |-> 0, duration |-> duration, finished |-> FALSE]

TimerTick(t, delta) ==
    IF t.finished THEN t
    ELSE IF t.elapsed + delta >= t.duration
         THEN [t EXCEPT !.elapsed = t.duration, !.finished = TRUE]
         ELSE [t EXCEPT !.elapsed = @ + delta]

TimerReset(t) == [t EXCEPT !.elapsed = 0, !.finished = FALSE]

TimerSetDuration(t, duration) == [t EXCEPT !.duration = duration]

\* the knobs sheep() gives the controller of a sheep, by the active modifiers
HopKnobs(moon_gravity, hyper_sheep) ==
    LET hop_speed_mult0 == 250
        time_between_hops0 == 200
        hop_time_length0 == 300
        hop_speed_mult1 == IF moon_gravity THEN hop_speed_mult0 \div 2 ELSE hop_speed_mult0
        hop_time_length1 == IF moon_gravity THEN hop_time_length0 + 500 ELSE hop_time_length0
    IN  [hop_speed_mult |-> IF hyper_sheep THEN hop_speed_mult1 * 2 ELSE hop_speed_mult1,
         time_between_hops |-> IF hyper_sheep THEN time_between_hops0 \div 10
                               ELSE time_between_hops0,
         hop_time_length |-> hop_time_length1,
         jump_height_mult |-> IF moon_gravity THEN 600 ELSE 100]

\* HopMovementController::default with the knobs, after on_add at position pos
HopMovementController(knobs, pos) ==
    [pos |-> pos,
     y |-> 0,
     intent |-> pos,
     current_hop_src |-> NoVec,
     current_hop_dest |-> NoVec,
     hop_speed_mult |-> knobs.hop_speed_mult,
     time_between_hops |-> knobs.time_between_hops,
     hop_time_length |-> knobs.hop_time_length,
     jump_height_mult |-> knobs.jump_height_mult,
     airborne |-> FALSE,
     timer |-> Timer(500),
     hops |-> 0,
     steers |-> 0]

apply_movement(c, direction) ==
    [c EXCEPT !.intent = <<@[1] + direction[1], @[2] + direction[2]>>]

\* update that starts a hop without recording its endpoints
update_no_endpoints(c, delta_ms, current_pos) ==
    LET t == TimerTick(c.timer, (delta_ms * c.hop_speed_mult) \div 100)
        c1 == [c EXCEPT !.timer = t]
    IN  IF ~t.finished THEN [c |-> c1, just_hopped |-> FALSE]
        ELSE IF c.airborne
        THEN [c |-> [c1 EXCEPT !.airborne = FALSE,
                               !.timer = TimerReset(TimerSetDuration(t, c.time_between_hops))],
              just_hopped |-> FALSE]
        ELSE IF DistSq(c.intent, current_pos) > HOP_THRESHOLD_SQ
        THEN [c |-> [c1 EXCEPT !.airborne = TRUE,
                               !.timer = TimerReset(TimerSetDuration(t, c.hop_time_length)),
                               !.hops = @ + 1],
              just_hopped |-> TRUE]
        ELSE [c |-> c1, just_hopped |-> FALSE]

\* update that starts the next hop on the call that lands the hop before
update_eager(c, delta_ms, current_pos) ==
    LET t == TimerTick(c.timer, (delta_ms * c.hop_speed_mult) \div 100)
        c1 == [c EXCEPT !.timer = t]
    IN  IF ~t.finished THEN [c |-> c1, just_hopped |-> FALSE]
        ELSE IF DistSq(c.intent, current_pos) > HOP_THRESHOLD_SQ
        THEN [c |-> [c1 EXCEPT !.airborne = TRUE,
                               !.timer = TimerReset(TimerSetDuration(t, c.hop_time_length)),
                               !.current_hop_src = current_pos,
                               !.current_hop_dest = c.intent,
                               !.hops = @ + 1],
              just_hopped |-> TRUE]
        ELSE [c |-> [c1 EXCEPT !.airborne = FALSE,
                               !.timer = IF c.airborne
                                         THEN TimerReset(TimerSetDuration(t, c.time_between_hops))
                                         ELSE @],
              just_hopped |-> FALSE]

\* HopMovementController::update: [c, just_hopped]
update(c, delta_ms, current_pos) ==
    LET t == TimerTick(c.timer, (delta_ms * c.hop_speed_mult) \div 100)
        c1 == [c EXCEPT !.timer = t]
    IN  IF ~t.finished THEN [c |-> c1, just_hopped |-> FALSE]
        ELSE IF c.airborne
        THEN [c |-> [c1 EXCEPT !.airborne = FALSE,
                               !.timer = TimerReset(TimerSetDuration(t, c.time_between_hops))],
              just_hopped |-> FALSE]
        ELSE IF DistSq(c.intent, current_pos) > HOP_THRESHOLD_SQ
        THEN [c |-> [c1 EXCEPT !.airborne = TRUE,
                               !.timer = TimerReset(TimerSetDuration(t, c.hop_time_length)),
                               !.current_hop_src = current_pos,
                               !.current_hop_dest = c.intent,
                               !.hops = @ + 1],
              just_hopped |-> TRUE]
        ELSE [c |-> c1, just_hopped |-> FALSE]

\* egui's lerp(a..=b, t) = (1 - t) * a + t * b at t = elapsed / duration
lerp(a, b, t) == ((t.duration - t.elapsed) * a + t.elapsed * b) \div t.duration

\* 4 t (1 - t), in thousandths
jump_height(t) ==
    (4000 * t.elapsed * (t.duration - t.elapsed)) \div (t.duration * t.duration)

\* the body of apply_hop_movement for one controller
apply_hop_movement(c, delta_ms) ==
    LET r == update([c EXCEPT !.intent = clamp_to_bounds(@)], delta_ms, c.pos)
        c1 == r.c
    IN  IF c1.airborne /\ c1.current_hop_src # NoVec /\ c1.current_hop_dest # NoVec
        THEN LET src == c1.current_hop_src
                 dest == clamp_to_bounds(c1.current_hop_dest)
             IN  [c1 EXCEPT !.pos = <<lerp(src[1], dest[1], c1.timer),
                                      lerp(src[2], dest[2], c1.timer)>>,
                            !.y = jump_height(c1.timer)]
        ELSE c1

\* handle_random_teleport at the drawn position p
handle_random_teleport(c, p) == [c EXCEPT !.pos = p, !.y = 0, !.intent = p]

(* Actions of the mover *)

\* a sheep is spawned at a position drawn inside the bounds
MoverSpawn(p, moon_gravity, hyper_sheep) ==
    /\ mover = NoMover
    /\ mover' = HopMovementController(HopKnobs(moon_gravity, hyper_sheep), p)
    /\ UNCHANGED <<phase, next_phase, gs, round_stats, sheep, pool, round_info, scored,
                   shop_offers, ufo, evasion, tick>>

\* the steering of a frame moves the intent; apply_hop_movement has clamped
\* the intent of the frame before
MoverApplyMovement(direction) ==
    /\ mover # NoMover
    /\ InBounds(mover.intent)
    /\ mover.steers < MaxSteers
    /\ mover' = [apply_movement(mover, direction) EXCEPT !.steers = @ + 1]
    /\ UNCHANGED <<phase, next_phase, gs, round_stats, sheep, pool, round_info, scored,
                   shop_offers, ufo, evasion, tick>>

MoverTeleport(p) ==
    /\ mover # NoMover
    /\ mover.steers < MaxSteers
    /\ mover.pos # p
    /\ mover' = [handle_random_teleport(mover, p) EXCEPT !.steers = @ + 1]
    /\ UNCHANGED <<phase, next_phase, gs, round_stats, sheep, pool, round_info, scored,
                   shop_offers, ufo, evasion, tick>>

ApplyHopMovement(delta_ms) ==
    /\ mover # NoMover
    /\ mover.hops < MaxHops \/ mover.airborne
    /\ mover' = apply_hop_movement(mover, delta_ms)
    /\ UNCHANGED <<phase, next_phase, gs, round_stats, sheep, pool, round_info, scored,
                   shop_offers, ufo, evasion, tick>>

----------------------------------------------------------------------------
(* The shop.  An item is a Boost or a Charm; NoItem is the None of a slot   *)
(* whose item was bought.  Slots are numbered from 1 (the code counts from  *)
(* 0).                                                                      *)

NoItem == [kind |-> "None"]

Boost == {"BlueSheep", "RedSheep", "BarkPower", "MaxCharms"}

BoostItem(boost) == [kind |-> "Boost", name |-> boost]

CharmItem(charm) == [kind |-> "Charm", name |-> charm]

boost_price(boost) ==
    CASE boost = "BlueSheep" -> 2
      [] boost = "RedSheep"  -> 2
      [] boost = "BarkPower" -> 2
      [] boost = "MaxCharms" -> 3

charm_price(charm) ==
    CASE charm = "GoldenSheep"         -> 5
      [] charm = "HalfTimeDoubleSheep" -> 4
      [] charm = "ChanceBlueOnBuy"     -> 3
      [] charm = "ChanceRedOnBuy"      -> 3
      [] charm = "Exponential"         -> 5
      [] charm = "WellTrained"         -> 4
      [] charm = "DoubleCountRadius"   -> 3
      [] charm = "Evolution"           -> 5
      [] charm = "Cloning"             -> 4
      [] charm = "ShopCount"           -> 3
      [] charm = "Ink"                 -> 3
      [] charm = "RedToGold"           -> 4

\* ItemType::price
price(item) ==
    IF item.kind = "Boost" THEN boost_price(item.name) ELSE charm_price(item.name)

\* the charms random_unique draws from
charm_pool ==
    <<"GoldenSheep", "HalfTimeDoubleSheep", "ChanceBlueOnBuy", "ChanceRedOnBuy",
      "Exponential", "Evolution", "Cloning", "ShopCount", "Ink", "RedToGold">>

\* the boosts the draw of random_unique may return
DrawnBoosts == {"BlueSheep", "MaxCharms"}

Reverse(seq) == [i \in 1..Len(seq) |-> seq[Len(seq) + 1 - i]]

\* the draws of n distinct charms out of the available ones that the model
\* follows: the first n in the order of the pool, and the last n backwards
DrawnCharms(available, n) ==
    {SubSeq(available, 1, n),
     Reverse(SubSeq(available, Len(available) - n + 1, Len(available)))}

\* ItemType::random_unique: the lists of items it may return
random_unique(count, owned_charms) ==
    LET Free(charm) == ~Contains(owned_charms, charm)
        available_charms == SelectSeq(charm_pool, Free)
        n == Min(count - 1, Len(available_charms))
    IN  {<<BoostItem(boost)>> \o [i \in 1..n |-> CharmItem(drawn[i])] :
            boost \in DrawnBoosts, drawn \in DrawnCharms(available_charms, n)}

\* the number of items on_shop asks for
shop_count(g) == IF is_charm_active(g, "ShopCount") THEN 4 ELSE 3

U8 == 256

Add8(x, n) == (x + n) % U8

\* Boost::apply; roll is the outcome of random_ratio(1, 4)
apply(boost, g, roll) ==
    CASE boost = "BlueSheep" -> [g EXCEPT !.blue_sheep_count = Add16(@, 1)]
      [] boost = "RedSheep"  -> [g EXCEPT !.red_sheep_count = Add16(@, 1)]
      [] boost = "BarkPower" -> [g EXCEPT !.player_bark_radius = @ + 10]
      [] boost = "MaxCharms" -> IF roll THEN [g EXCEPT !.max_charms = Add8(@, 1)]
                                ELSE g

\* buy_shop_item that pushes a charm without asking charms_full
buy_shop_item_unchecked(g, offers, slot, roll) ==
    IF slot \notin 1..Len(offers) \/ offers[slot] = NoItem
    THEN [gs |-> g, offers |-> offers]
    ELSE LET item == offers[slot]
         IN  IF g.money < price(item)
             THEN [gs |-> g, offers |-> offers]
             ELSE LET g1 == IF item.kind = "Boost" THEN apply(item.name, g, roll)
                            ELSE [g EXCEPT !.charms = Append(@, item.name)]
                  IN  [gs |-> [g1 EXCEPT !.money = @ - price(item)],
                       offers |-> [offers EXCEPT ![slot] = NoItem]]

\* buy_shop_item that does not compare the money with the price
buy_shop_item_on_credit(g, offers, slot, roll) ==
    IF slot \notin 1..Len(offers) \/ offers[slot] = NoItem
    THEN [gs |-> g, offers |-> offers]
    ELSE LET item == offers[slot]
         IN  IF item.kind = "Charm" /\ charms_full(g)
             THEN [gs |-> g, offers |-> offers]
             ELSE LET g1 == IF item.kind = "Boost" THEN apply(item.name, g, roll)
                            ELSE [g EXCEPT !.charms = Append(@, item.name)]
                  IN  [gs |-> [g1 EXCEPT !.money = @ - price(item)],
                       offers |-> [offers EXCEPT ![slot] = NoItem]]

buy_shop_item(g, offers, slot, roll) ==
    IF slot \notin 1..Len(offers) \/ offers[slot] = NoItem
    THEN [gs |-> g, offers |-> offers]
    ELSE LET item == offers[slot]
         IN  IF g.money < price(item)
             THEN [gs |-> g, offers |-> offers]
             ELSE IF item.kind = "Charm" /\ charms_full(g)
             THEN [gs |-> g, offers |-> offers]
             ELSE LET g1 == IF item.kind = "Boost" THEN apply(item.name, g, roll)
                            ELSE [g EXCEPT !.charms = Append(@, item.name)]
                  IN  [gs |-> [g1 EXCEPT !.money = @ - price(item)],
                       offers |-> [offers EXCEPT ![slot] = NoItem]]

\* the offers left by the shop before the round, none of them bought
LastOffers(g) == CHOOSE offers \in random_unique(shop_count(g), g.charms) : TRUE

\* Vec::remove
RemoveAt(seq, i) == SubSeq(seq, 1, i - 1) \o SubSeq(seq, i + 1, Len(seq))

sell_charm(g, slot) ==
    IF slot \notin 1..Len(g.charms)
    THEN g
    ELSE LET charm == g.charms[slot]
         IN  [g EXCEPT !.charms = RemoveAt(@, slot),
                       !.money = @ + charm_price(charm)]

\* the amount charm_card writes on the Sell button
sell_price(charm) == charm_price(charm) \div 2

buy_sheep(g) ==
    IF g.money < 1 THEN g
    ELSE [g EXCEPT !.sheep_count = Add16(@, 1), !.money = @ - 1]

\* draw_new_items, the "Reroll" button; drawn is the list random_unique
\* returns
draw_new_items(g, offers, drawn) ==
    IF g.money = 0
    THEN [gs |-> g, offers |-> offers]
    ELSE [gs |-> [g EXCEPT !.money = @ - 1], offers |-> drawn]

----------------------------------------------------------------------------
(* pick_evasion_dir.  A bounds value is [min, max]; the function does not   *)
(* depend on the unit of length.                                            *)

\* LevelBounds::clamp_to_bounds of a bounds value
clamp_to(bounds, p) ==
    <<Clamp(p[1], bounds.min[1], bounds.max[1]), Clamp(p[2], bounds.min[2], bounds.max[2])>>

\* Vec2::perp
perp(v) == <<-v[2], v[1]>>

Neg(v) == <<-v[1], -v[2]>>

Add(a, b) == <<a[1] + b[1], a[2] + b[2]>>

\* the squared length of the step from pos along dir that the bounds allow
ClampedDisplacement(pos, dir, bounds) == DistSq(clamp_to(bounds, Add(pos, dir)), pos)

\* a loop that takes the later candidate on equal scores
RECURSIVE EvasionLoopLast(_, _, _, _, _)
EvasionLoopLast(best, candidates, i, pos, bounds) ==
    IF i > Len(candidates) THEN best
    ELSE LET dir == candidates[i]
             score == ClampedDisplacement(pos, dir, bounds)
         IN  EvasionLoopLast(IF score >= best.score THEN [dir |-> dir, score |-> score] ELSE best,
                             candidates, i + 1, pos, bounds)

\* the loop over the candidates: best = [dir, score]
RECURSIVE EvasionLoop(_, _, _, _, _)
EvasionLoop(best, candidates, i, pos, bounds) ==
    IF i > Len(candidates) THEN best
    ELSE LET dir == candidates[i]
             score == ClampedDisplacement(pos, dir, bounds)
         IN  EvasionLoop(IF score > best.score THEN [dir |-> dir, score |-> score] ELSE best,
                         candidates, i + 1, pos, bounds)

\* a choice among the three other candidates that never keeps the preferred one
pick_evasion_dir_blocked(pos, preferred, bounds) ==
    LET candidates == <<perp(preferred), Neg(perp(preferred)), Neg(preferred)>>
    IN  EvasionLoop([dir |-> candidates[1], score |-> 0], candidates, 1, pos, bounds).dir

pick_evasion_dir(pos, preferred, bounds) ==
    LET candidates == <<perp(preferred), Neg(perp(preferred)), Neg(preferred)>>
        target == clamp_to(bounds, Add(pos, preferred))
    IN  IF target = Add(pos, preferred)
        THEN preferred
        ELSE EvasionLoop([dir |-> preferred, score |-> DistSq(target, pos)],
                         candidates, 1, pos, bounds).dir

----------------------------------------------------------------------------
(* The state machine of a sheep and the Ufo.  A herded sheep carries, next  *)
(* to state, color and pos: danger_pos (the payload of Evading and Spooked), *)
(* intent (MovementController), controllers (whether its movement           *)
(* controllers are attached), y (its height, in tenths) and steers.          *)

SHEEP_INTERACT_RADIUS == 70

SPOOKED_RELEASE_EXTRA == 80

ABDUCTION_ASCENT_SPEED == 60

UFO_HEIGHT == 150

UFO_ABDUCTION_SECONDS == 8000

UFO_POST_ABDUCTION_PAUSE_SECONDS == 3000

UFO_TARGET_REACHED_DISTANCE_SQ == 25

\* Option::None of Ufo.target
NoTarget == 0

LevelBoundsValue ==
    [min |-> <<BoundsMinX, BoundsMinZ>>, max |-> <<BoundsMaxX, BoundsMaxZ>>]

\* a sheep as sheep() spawns it at pos: Sheep::new, intent set by on_add
HerdedSheep(color, pos) ==
    [state |-> "Wander", color |-> color, pos |-> pos, danger_pos |-> NoVec,
     intent |-> pos, controllers |-> TRUE, y |-> 0, steers |-> 0]

Sgn(x) == IF x > 0 THEN 1 ELSE IF x < 0 THEN -1 ELSE 0

\* (to - from).normalize_or(Vec2::X), in tenths and to the nearest of the
\* eight compass directions the model follows
Unit(from, to) ==
    LET sx == Sgn(to[1] - from[1])
        sy == Sgn(to[2] - from[2])
    IN  IF sx = 0 /\ sy = 0 THEN <<10, 0>>
        ELSE IF sx # 0 /\ sy # 0 THEN <<7 * sx, 7 * sy>>
        ELSE <<10 * sx, 10 * sy>>

\* movement.apply_movement(dir * delta * step_distance): a step of a tenth
\* along each axis of dir
Steer(s, dir) ==
    [s EXCEPT !.intent = <<@[1] + Sgn(dir[1]), @[2] + Sgn(dir[2])>>,
              !.steers = @ + 1]

\* whether sheep_state_update steers the sheep rather than changing its state
Steers(s, player_pos, g) ==
    LET R2 == SHEEP_INTERACT_RADIUS * SHEEP_INTERACT_RADIUS
        R8 == (SHEEP_INTERACT_RADIUS + SPOOKED_RELEASE_EXTRA)
              * (SHEEP_INTERACT_RADIUS + SPOOKED_RELEASE_EXTRA)
    IN  CASE s.state = "Evading" ->
                DistSq(s.pos, player_pos) < R2 \/ DistSq(s.pos, s.danger_pos) < R2
          [] s.state = "Spooked" ->
                IF is_charm_active(g, "WellTrained")
                THEN ~(DistSq(s.pos, s.danger_pos) < R2)
                ELSE DistSq(s.pos, s.danger_pos) < R8
          [] s.state = "BeingCounted" -> TRUE
          [] OTHER -> FALSE

become_spooked_any(s, danger_pos) ==
    DropTimer([s EXCEPT !.state = "Spooked", !.danger_pos = danger_pos])

become_spooked(s, danger_pos) ==
    IF s.state \in {"Wander", "Evading"}
    THEN DropTimer([s EXCEPT !.state = "Spooked", !.danger_pos = danger_pos])
    ELSE s

is_being_abducted(s) == s.state = "BeingAbducted"

\* start_abduction that takes a sheep in any state
start_abduction_any(s) ==
    [sheep |-> DropTimer([s EXCEPT !.state = "BeingAbducted", !.danger_pos = NoVec]),
     started |-> TRUE]

\* start_abduction: the sheep after the call and the value returned
start_abduction(s) ==
    IF is_being_abducted(s) \/ s.state = "BeingCounted"
    THEN [sheep |-> s, started |-> FALSE]
    ELSE [sheep |-> DropTimer([s EXCEPT !.state = "BeingAbducted", !.danger_pos = NoVec]),
          started |-> TRUE]

\* sheep_state_update that lets a BeingCounted sheep go once it is outside
\* the goal radius
sheep_state_update_release(s, player_pos, g) ==
    LET R2 == SHEEP_INTERACT_RADIUS * SHEEP_INTERACT_RADIUS
        R8 == (SHEEP_INTERACT_RADIUS + SPOOKED_RELEASE_EXTRA)
              * (SHEEP_INTERACT_RADIUS + SPOOKED_RELEASE_EXTRA)
        wander == [s EXCEPT !.state = "Wander", !.danger_pos = NoVec]
    IN  CASE s.state = "Wander" ->
                IF DistSq(s.pos, player_pos) < R2
                THEN [s EXCEPT !.state = "Evading", !.danger_pos = player_pos]
                ELSE s
          [] s.state = "Evading" ->
                LET danger_pos == IF DistSq(s.pos, player_pos) < R2
                                  THEN player_pos ELSE s.danger_pos
                IN  IF DistSq(s.pos, danger_pos) >= R2
                    THEN wander
                    ELSE Steer(s, pick_evasion_dir(s.pos, Unit(danger_pos, s.pos),
                                                   LevelBoundsValue))
          [] s.state = "Spooked" ->
                IF is_charm_active(g, "WellTrained")
                THEN IF DistSq(s.pos, s.danger_pos) < R2
                     THEN wander
                     ELSE Steer(s, Unit(s.pos, s.danger_pos))
                ELSE IF DistSq(s.pos, s.danger_pos) >= R8
                     THEN wander
                     ELSE Steer(s, Unit(s.danger_pos, s.pos))
          [] s.state = "BeingCounted" ->
                IF DistSq(s.pos, GOAL_POSITION) < GOAL_RADIUS * GOAL_RADIUS
                THEN Steer(s, Unit(s.pos, GOAL_POSITION))
                ELSE wander
          [] s.state = "BeingAbducted" -> [s EXCEPT !.intent = s.pos]

\* the body of sheep_state_update for one sheep and the one player
sheep_state_update(s, player_pos, g) ==
    LET R2 == SHEEP_INTERACT_RADIUS * SHEEP_INTERACT_RADIUS
        R8 == (SHEEP_INTERACT_RADIUS + SPOOKED_RELEASE_EXTRA)
              * (SHEEP_INTERACT_RADIUS + SPOOKED_RELEASE_EXTRA)
        wander == [s EXCEPT !.state = "Wander", !.danger_pos = NoVec]
    IN  CASE s.state = "Wander" ->
                IF DistSq(s.pos, player_pos) < R2
                THEN [s EXCEPT !.state = "Evading", !.danger_pos = player_pos]
                ELSE s
          [] s.state = "Evading" ->
                LET danger_pos == IF DistSq(s.pos, player_pos) < R2
                                  THEN player_pos ELSE s.danger_pos
                IN  IF DistSq(s.pos, danger_pos) >= R2
                    THEN wander
                    ELSE Steer(s, pick_evasion_dir(s.pos, Unit(danger_pos, s.pos),
                                                   LevelBoundsValue))
          [] s.state = "Spooked" ->
                IF is_charm_active(g, "WellTrained")
                THEN IF DistSq(s.pos, s.danger_pos) < R2
                     THEN wander
                     ELSE Steer(s, Unit(s.pos, s.danger_pos))
                ELSE IF DistSq(s.pos, s.danger_pos) >= R8
                     THEN wander
                     ELSE Steer(s, Unit(s.danger_pos, s.pos))
          [] s.state = "BeingCounted" -> Steer(s, Unit(s.pos, GOAL_POSITION))
          [] s.state = "BeingAbducted" -> [s EXCEPT !.intent = s.pos]

\* sheep_abduction_update for one sheep: the sheep after delta_ms, or NoSheep
\* when it is despawned
sheep_abduction_update(s, delta_ms) ==
    IF ~is_being_abducted(s) THEN s
    ELSE LET y == Min(s.y + (ABDUCTION_ASCENT_SPEED * delta_ms) \div 1000, UFO_HEIGHT)
         IN  IF y >= UFO_HEIGHT - 20 THEN NoSheep ELSE [s EXCEPT !.y = y]

\* the loop of handle_bark over the sheep
handle_bark(flock, player_pos, g) ==
    [e \in SheepIds |->
        IF flock[e] # NoSheep
           /\ DistSq(player_pos, flock[e].pos) <= g.player_bark_radius * g.player_bark_radius
        THEN become_spooked(flock[e], player_pos)
        ELSE flock[e]]

\* Ufo::new; the Ufo is spawned at (0, -20)
UfoNew ==
    [target |-> NoTarget,
     abduction_timer |-> Timer(UFO_ABDUCTION_SECONDS),
     post_abduction_pause_timer |->
         [Timer(UFO_POST_ABDUCTION_PAUSE_SECONDS) EXCEPT
             !.elapsed = UFO_POST_ABDUCTION_PAUSE_SECONDS],
     pos |-> <<0, -200>>]

tick_abduction_timers(u, delta_ms) ==
    [u EXCEPT !.abduction_timer = TimerTick(@, delta_ms),
              !.post_abduction_pause_timer = TimerTick(@, delta_ms)]

\* pick_targets; chosen is the sheep the draw returns, NoTarget for an empty flock
pick_targets(u, chosen) ==
    IF ~u.post_abduction_pause_timer.finished THEN [u EXCEPT !.target = NoTarget]
    ELSE IF u.target # NoTarget THEN u
    ELSE [u EXCEPT !.target = chosen]

\* update_ufo that does not ask whether the abduction timer has finished
update_ufo_hasty(u, flock, arrives) ==
    IF ~u.post_abduction_pause_timer.finished
    THEN [ufo |-> [u EXCEPT !.target = NoTarget], flock |-> flock]
    ELSE IF u.target = NoTarget
    THEN [ufo |-> u, flock |-> flock]
    ELSE IF flock[u.target] = NoSheep
    THEN [ufo |-> [u EXCEPT !.target = NoTarget], flock |-> flock]
    ELSE LET target == u.target
             distance_sq == DistSq(flock[target].pos, u.pos)
             u1 == IF distance_sq > 0 /\ arrives
                   THEN [u EXCEPT !.pos = flock[target].pos] ELSE u
             r == start_abduction(flock[target])
         IN  IF distance_sq <= UFO_TARGET_REACHED_DISTANCE_SQ
             THEN IF r.started
                  THEN [ufo |-> [u1 EXCEPT
                                   !.abduction_timer = TimerReset(@),
                                   !.post_abduction_pause_timer = TimerReset(@),
                                   !.target = NoTarget],
                        flock |-> [flock EXCEPT ![target] = r.sheep]]
                  ELSE [ufo |-> [u1 EXCEPT !.target = NoTarget], flock |-> flock]
             ELSE [ufo |-> u1, flock |-> flock]

\* update_ufo for the one Ufo: [ufo, flock].  arrives tells whether the step
\* of the frame takes the Ufo all the way to its target
update_ufo(u, flock, arrives) ==
    IF ~u.post_abduction_pause_timer.finished
    THEN [ufo |-> [u EXCEPT !.target = NoTarget], flock |-> flock]
    ELSE IF u.target = NoTarget
    THEN [ufo |-> u, flock |-> flock]
    ELSE IF flock[u.target] = NoSheep
    THEN [ufo |-> [u EXCEPT !.target = NoTarget], flock |-> flock]
    ELSE LET target == u.target
             distance_sq == DistSq(flock[target].pos, u.pos)
             u1 == IF distance_sq > 0 /\ arrives
                   THEN [u EXCEPT !.pos = flock[target].pos] ELSE u
         IN  IF distance_sq <= UFO_TARGET_REACHED_DISTANCE_SQ
             THEN IF u.abduction_timer.finished
                  THEN LET r == start_abduction(flock[target])
                       IN  IF r.started
                           THEN [ufo |-> [u1 EXCEPT
                                            !.abduction_timer = TimerReset(@),
                                            !.post_abduction_pause_timer = TimerReset(@),
                                            !.target = NoTarget],
                                 flock |-> [flock EXCEPT ![target] = r.sheep]]
                           ELSE [ufo |-> [u1 EXCEPT !.target = NoTarget], flock |-> flock]
                  ELSE [ufo |-> [u1 EXCEPT !.target = NoTarget], flock |-> flock]
             ELSE [ufo |-> u1, flock |-> flock]

----------------------------------------------------------------------------
(* The whole Sheep component.  Next to the fields of a herded sheep, a      *)
(* sheep carries timer (the payload of Wander, NoTimer in the other         *)
(* states), move_speed_mult (of its MovementController, in hundredths) and  *)
(* herd_dir (a unit vector in tenths, or zero).                             *)

\* Sheep::new: min_wait and max_wait, in milliseconds
min_wait == 1500

max_wait == 7000

\* the duration of the Wander timer a sheep is given when it stops evading
\* or fleeing
RELEASE_WAIT == 500

\* movement.move_speed_mult of a sheep that is being counted
COUNTED_SPEED_MULT == 80

HERD_RADIUS == 100

HERD_SEPARATION_RADIUS == 24

HERD_CELL_SIZE == HERD_RADIUS

\* in tenths
HERD_COHESION_WEIGHT == 9

HERD_SEPARATION_WEIGHT == 15

\* in hundredths
HERD_WANDER_JITTER == 35

\* in milliseconds
HERD_UPDATE_INTERVAL_SECS == 100

HERD_UPDATE_BUCKETS == 4

Zero == <<0, 0>>

\* move_speed_mult of sheep(): default_speed_mult and step_distance of the
\* sheep; spooked_speed_mult is twice as much
default_speed_mult(g) == IF is_modifier_active(g, "HyperSheep") THEN 260 ELSE 200

spooked_speed_mult(g) == default_speed_mult(g) * 2

\* a sheep as sheep() spawns it at pos, its Wander timer as given
WholeSheep(color, pos, timer, g) ==
    [state |-> "Wander", color |-> color, pos |-> pos, danger_pos |-> NoVec,
     intent |-> pos, controllers |-> TRUE, y |-> 0, steers |-> 0,
     timer |-> timer, move_speed_mult |-> default_speed_mult(g), herd_dir |-> Zero]

\* Sheep::reset_timer; wait is the value drawn from min_wait..max_wait
reset_timer(s, wait) ==
    IF s.state = "Wander"
    THEN [s EXCEPT !.timer = TimerReset(TimerSetDuration(@, wait))]
    ELSE s

HERD_EVADE_BLEND == 55

\* pos.distance(other) < player.sheep_interact_radius
WithinInteract(a, b) == DistSq(a, b) < SHEEP_INTERACT_RADIUS * SHEEP_INTERACT_RADIUS

Scale(v, k) == <<v[1] * k, v[2] * k>>

\* v.normalize_or(fallback), to the compass directions the model follows
normalize_or(v, fallback) == IF v = Zero THEN fallback ELSE Unit(Zero, v)

normalize_or_zero(v) == normalize_or(v, Zero)

\* the body of sheep_state_update for one sheep, all its fields: the state,
\* danger position and intent as sheep_state_update gives them (an Evading
\* sheep is steered along its evasion direction blended with herd_dir), then
\* the timer, the speed and herd_dir
sheep_state_update_all(s, player_pos, g, wait) ==
    LET t == sheep_state_update(s, player_pos, g)
        released == s.state \in {"Evading", "Spooked"} /\ t.state = "Wander"
        zeroed == s.state \in {"Spooked", "BeingCounted", "BeingAbducted"}
        speed == CASE s.state = "Wander" -> default_speed_mult(g)
                   [] s.state = "Evading" /\ ~released -> default_speed_mult(g)
                   [] s.state = "Spooked" /\ ~released ->
                         IF is_charm_active(g, "WellTrained")
                         THEN default_speed_mult(g) ELSE spooked_speed_mult(g)
                   [] s.state = "BeingCounted" -> COUNTED_SPEED_MULT
                   [] OTHER -> s.move_speed_mult
        danger_pos == IF WithinInteract(s.pos, player_pos) THEN player_pos ELSE s.danger_pos
        dir == pick_evasion_dir(s.pos, Unit(danger_pos, s.pos), LevelBoundsValue)
        steer == normalize_or(Add(Scale(dir, 100), Scale(s.herd_dir, HERD_EVADE_BLEND)), dir)
        t1 == [t EXCEPT !.timer = IF t.state # "Wander" THEN NoTimer
                                  ELSE IF released THEN Timer(RELEASE_WAIT)
                                  ELSE s.timer,
                        !.intent = IF s.state = "Evading" /\ ~released
                                   THEN Steer(s, steer).intent ELSE @,
                        !.move_speed_mult = speed,
                        !.herd_dir = IF zeroed THEN Zero ELSE @]
    IN  IF released THEN reset_timer(t1, wait) ELSE t1

----------------------------------------------------------------------------
(* Flocking: sheep_wander and sheep_herding.  At the flock sizes followed    *)
(* the cap of HERD_MAX_NEIGHBORS = 20 sampled neighbours is never reached.   *)

\* entity.to_bits() of sheep e
EntityBits(e) == e

Eligible(s) == s # NoSheep /\ s.state \in {"Wander", "Evading"}

\* the snapshot of sheep_herding: the entities in Wander or Evading
Snapshot(flock) == {e \in SheepIds : Eligible(flock[e])}

\* cells of half the size
spatial_cell_half(position) ==
    <<position[1] \div (HERD_CELL_SIZE \div 2), position[2] \div (HERD_CELL_SIZE \div 2)>>

spatial_cell(position) ==
    <<position[1] \div HERD_CELL_SIZE, position[2] \div HERD_CELL_SIZE>>

\* the entities of the snapshot that the loops over the neighbour cells of
\* e count: in one of the nine cells around e, within HERD_RADIUS
Neighbors(flock, e) ==
    LET cell == spatial_cell(flock[e].pos)
    IN  {o \in Snapshot(flock) \ {e} :
            LET c == spatial_cell(flock[o].pos)
            IN  /\ c[1] - cell[1] \in -1..1
                /\ c[2] - cell[2] \in -1..1
                /\ DistSq(flock[o].pos, flock[e].pos) <= HERD_RADIUS * HERD_RADIUS}

RECURSIVE VecSum(_, _)
VecSum(f, S) ==
    IF S = {} THEN Zero
    ELSE LET x == CHOOSE y \in S : TRUE IN Add(f[x], VecSum(f, S \ {x}))

\* dist_sq.sqrt() of a squared distance below HERD_SEPARATION_RADIUS_SQ
Sqrt(dist_sq) ==
    CHOOSE r \in 0..HERD_SEPARATION_RADIUS : r * r <= dist_sq /\ dist_sq < (r + 1) * (r + 1)

\* what one neighbour adds to separation: the direction away from it times
\* push_strength, in thousandths
Push(pos, other_pos) ==
    LET dist_sq == DistSq(other_pos, pos)
    IN  IF dist_sq > 0 /\ dist_sq < HERD_SEPARATION_RADIUS * HERD_SEPARATION_RADIUS
        THEN Scale(Unit(other_pos, pos),
                   ((HERD_SEPARATION_RADIUS - Sqrt(dist_sq)) * 1000) \div HERD_SEPARATION_RADIUS)
        ELSE Zero

\* the herd_dir sheep_herding computes for sheep e of the flock
HerdDir(flock, e) ==
    LET pos == flock[e].pos
        near == Neighbors(flock, e)
        nearby_count == Cardinality(near)
        center == VecSum([o \in near |-> flock[o].pos], near)
        separation == VecSum([o \in near |-> Push(pos, flock[o].pos)], near)
        cohesion == Scale(normalize_or_zero(<<center[1] - nearby_count * pos[1],
                                              center[2] - nearby_count * pos[2]>>),
                          HERD_COHESION_WEIGHT)
        avoid == Scale(normalize_or_zero(separation), HERD_SEPARATION_WEIGHT)
    IN  IF nearby_count = 0 THEN Zero ELSE normalize_or_zero(Add(cohesion, avoid))

\* a refresh that recomputes every eligible sheep, whatever its bucket
sheep_herding_every(flock, herd_timer, herd_bucket, delta) ==
    LET elapsed == herd_timer + delta
        active_bucket == (herd_bucket + 1) % HERD_UPDATE_BUCKETS
        written == IF Cardinality(Snapshot(flock)) < 2 THEN {} ELSE Snapshot(flock)
    IN  IF elapsed < HERD_UPDATE_INTERVAL_SECS
        THEN [flock |-> flock, herd_timer |-> elapsed, herd_bucket |-> herd_bucket,
              refreshed |-> FALSE, written |-> {}]
        ELSE [flock |-> [e \in SheepIds |->
                            IF e \in written
                            THEN [flock[e] EXCEPT !.herd_dir = HerdDir(flock, e)]
                            ELSE flock[e]],
              herd_timer |-> elapsed % HERD_UPDATE_INTERVAL_SECS,
              herd_bucket |-> active_bucket,
              refreshed |-> TRUE, written |-> written]

\* sheep_herding: herd_timer is the elapsed time of the repeating timer the
\* system keeps, herd_bucket its bucket.  refreshed tells whether the timer
\* has just finished, written the sheep whose herd_dir the loop assigns.
sheep_herding(flock, herd_timer, herd_bucket, delta) ==
    LET elapsed == herd_timer + delta
        active_bucket == (herd_bucket + 1) % HERD_UPDATE_BUCKETS
        written == IF Cardinality(Snapshot(flock)) < 2 THEN {}
                   ELSE {e \in Snapshot(flock) :
                            EntityBits(e) % HERD_UPDATE_BUCKETS = active_bucket}
    IN  IF elapsed < HERD_UPDATE_INTERVAL_SECS
        THEN [flock |-> flock, herd_timer |-> elapsed, herd_bucket |-> herd_bucket,
              refreshed |-> FALSE, written |-> {}]
        ELSE [flock |-> [e \in SheepIds |->
                            IF e \in written
                            THEN [flock[e] EXCEPT !.herd_dir = HerdDir(flock, e)]
                            ELSE flock[e]],
              herd_timer |-> elapsed % HERD_UPDATE_INTERVAL_SECS,
              herd_bucket |-> active_bucket,
              refreshed |-> TRUE, written |-> written]

\* the heading sheep_wander takes when the timer of a sheep has finished
WanderDir(herd_dir, random_dir) ==
    IF herd_dir = Zero THEN random_dir
    ELSE normalize_or(Add(Scale(herd_dir, 100), Scale(random_dir, HERD_WANDER_JITTER)),
                      random_dir)

\* sheep_wander for one sheep; random_dir and wait are the values drawn, and
\* step_distance is the default_speed_mult sheep() has given the sheep
sheep_wander(s, g, delta, random_dir, wait) ==
    IF s.state # "Wander" THEN s
    ELSE LET timer == TimerTick(s.timer, delta)
             dir == WanderDir(s.herd_dir, random_dir)
             target == clamp_to_bounds(
                           <<s.pos[1] + (dir[1] * default_speed_mult(g)) \div 100,
                             s.pos[2] + (dir[2] * default_speed_mult(g)) \div 100>>)
         IN  IF timer.finished /\ ~s.timer.finished
             THEN reset_timer([s EXCEPT !.timer = timer, !.intent = target], wait)
             ELSE [s EXCEPT !.timer = timer]

----------------------------------------------------------------------------
(* Actions of the round cycle *)

\* positions the herded sheep are followed at: squared distance 0.36 and
\* 1.53 from the goal
HerdPositions == {<<0, 76>>, <<3, 70>>}

\* sheep_goal_check, in the Update schedule of every frame
GoalCheck ==
    \E order \in Orders(Alive(sheep)) :
        LET r == sheep_goal_check(gs, round_stats, sheep, order)
        IN  /\ gs' = r.gs
            /\ round_stats' = r.rs
            /\ sheep' = r.flock
            /\ pool' = [pool EXCEPT !["Black"] = @ + r.spawn]
            /\ scored' = r.log
            /\ UNCHANGED <<phase, next_phase, round_info, mover, shop_offers,
                   ufo, evasion, tick>>

\* a wandering sheep outside the goal radius comes to position p: from here
\* on the model follows it as an entity.  The round cycle follows one sheep
\* at a time; goal checks over several sheep are those of SpecScore
Track(c, p) ==
    /\ phase = "Herding"
    /\ pool[c] > 0
    /\ Alive(sheep) = {}
    /\ round_stats.sheep_counted + Cardinality(Alive(sheep)) < MaxHerded
    /\ LET e == CHOOSE x \in SheepIds \ Alive(sheep) :
                    \A y \in SheepIds \ Alive(sheep) : x <= y
       IN  sheep' = [sheep EXCEPT ![e] = Sheep("Wander", c, p)]
    /\ pool' = [pool EXCEPT ![c] = @ - 1]
    /\ scored' = <<>>
    /\ UNCHANGED <<phase, next_phase, gs, round_stats, round_info, mover, shop_offers,
                   ufo, evasion, tick>>

\* the movement systems bring sheep e to position p
MoveSheep(e, p) ==
    /\ phase = "Herding"
    /\ sheep[e] # NoSheep
    /\ sheep[e].pos # p
    /\ sheep' = [sheep EXCEPT ![e].pos = p]
    /\ scored' = <<>>
    /\ UNCHANGED <<phase, next_phase, gs, round_stats, pool, round_info, mover, shop_offers,
                   ufo, evasion, tick>>

\* check_points_goal: not gated by the phase
CheckPointsGoal ==
    /\ gs.points >= gs.point_target
    /\ gs.completed_rounds < MaxRounds
    /\ next_phase' = IF next_phase = "Title" THEN "Title" ELSE "ModifierChoice"
    /\ scored' = <<>>
    /\ UNCHANGED <<phase, gs, round_stats, sheep, pool, round_info, mover, shop_offers,
                   ufo, evasion, tick>>

\* tick_countdown when the countdown finishes
CountdownFinished ==
    /\ phase = "Herding"
    /\ next_phase' = "Title"
    /\ scored' = <<>>
    /\ UNCHANGED <<phase, gs, round_stats, sheep, pool, round_info, mover, shop_offers,
                   ufo, evasion, tick>>

\* leaving the title screen for Screen::Gameplay, whose sub-state starts at Herding
EnterGameplay ==
    /\ phase = "Title"
    /\ next_phase = NoPhase
    /\ next_phase' = "Herding"
    /\ UNCHANGED <<phase, gs, round_stats, sheep, pool, round_info, scored, mover, shop_offers,
                   ufo, evasion, tick>>

\* on_herding without the reset of the round's statistics
EnterHerdingKeepStats ==
    /\ next_phase = "Herding"
    /\ phase' = "Herding"
    /\ next_phase' = NoPhase
    /\ \E ink \in InkChoices(gs) : pool' = SpawnTally(gs, ink)
    /\ sheep' = NoFlock
    /\ scored' = <<>>
    /\ UNCHANGED <<gs, round_stats, round_info, mover, shop_offers,
                   ufo, evasion, tick>>

\* OnEnter(GamePhase::Herding): on_herding
EnterHerding ==
    /\ next_phase = "Herding"
    /\ phase' = "Herding"
    /\ next_phase' = NoPhase
    /\ round_stats' = RoundStatsDefault
    /\ \E ink \in InkChoices(gs) : pool' = SpawnTally(gs, ink)
    /\ sheep' = NoFlock
    /\ scored' = <<>>
    /\ UNCHANGED <<gs, round_info, mover, shop_offers,
                   ufo, evasion, tick>>

\* OnExit(GamePhase::Herding) despawns the flock;
\* OnEnter(GamePhase::ModifierChoice): on_modifier_choice
EnterModifierChoice ==
    /\ next_phase = "ModifierChoice"
    /\ phase' = "ModifierChoice"
    /\ next_phase' = NoPhase
    /\ LET r == new_round(gs)
       IN  /\ gs' = r.gs
           /\ \E choices \in pick_random_modifiers(r.gs, 2) :
                 round_info' = [removed_modifier |-> r.removed_modifier,
                                modifier_choices |-> choices]
    /\ sheep' = NoFlock
    /\ pool' = EmptyPool
    /\ scored' = <<>>
    /\ UNCHANGED <<round_stats, mover, shop_offers,
                   ufo, evasion, tick>>

\* the "Choose" button of the i-th modifier card; the cards exist in the
\* ModifierChoice phase, and one click is handled per frame
ChooseModifier(i) ==
    /\ phase = "ModifierChoice"
    /\ next_phase = NoPhase
    /\ i \in 1..Len(round_info.modifier_choices)
    /\ LET modifier == round_info.modifier_choices[i]
       IN  gs' = [gs EXCEPT !.active_modifiers = Append(@, modifier),
                            !.money = @ + coins_given(difficulty(modifier))]
    /\ next_phase' = "Shop"
    /\ UNCHANGED <<phase, round_stats, sheep, pool, round_info, scored, mover, shop_offers,
                   ufo, evasion, tick>>

\* OnExit(GamePhase::ModifierChoice) despawns the cards of the choice;
\* OnEnter(GamePhase::Shop): on_shop
EnterShop ==
    /\ next_phase = "Shop"
    /\ phase' = "Shop"
    /\ next_phase' = NoPhase
    /\ round_info' = NoRoundInfo
    /\ shop_offers' \in random_unique(shop_count(gs), gs.charms)
    /\ UNCHANGED <<gs, round_stats, sheep, pool, scored, mover,
                   ufo, evasion, tick>>

\* the "Start" button of the shop: start_next_round
StartNextRound ==
    /\ phase = "Shop"
    /\ next_phase = NoPhase
    /\ next_phase' = "Herding"
    /\ UNCHANGED <<phase, gs, round_stats, sheep, pool, round_info, scored, mover, shop_offers,
                   ufo, evasion, tick>>

\* OnEnter(Screen::Title): reset_run_state; the flock is despawned
EnterTitle ==
    /\ next_phase = "Title"
    /\ phase' = "Title"
    /\ next_phase' = NoPhase
    /\ gs' = GameStateDefault
    /\ round_stats' = RoundStatsDefault
    /\ sheep' = NoFlock
    /\ pool' = EmptyPool
    /\ scored' = <<>>
    /\ UNCHANGED <<round_info, mover, shop_offers,
                   ufo, evasion, tick>>

Init ==
    /\ phase = "Title"
    /\ next_phase = NoPhase
    /\ gs = GameStateDefault
    /\ round_stats = RoundStatsDefault
    /\ sheep = NoFlock
    /\ pool = EmptyPool
    /\ round_info = NoRoundInfo
    /\ scored = <<>>
    /\ mover = NoMover
    /\ ufo = NoUfo
    /\ evasion = NoEvasion
    /\ tick = NoTick
    /\ shop_offers = <<>>

Next ==
    \/ GoalCheck
    \/ \E c \in SheepColor, p \in HerdPositions : Track(c, p)
    \/ \E e \in SheepIds, p \in HerdPositions : MoveSheep(e, p)
    \/ CheckPointsGoal
    \/ CountdownFinished
    \/ EnterGameplay
    \/ EnterHerding
    \/ EnterModifierChoice
    \/ \E i \in 1..2 : ChooseModifier(i)
    \/ EnterShop
    \/ StartNextRound
    \/ EnterTitle

Spec == Init /\ [][Next]_vars

\* the hop controller of one sheep on its own
NextMove ==
    \/ \E p \in RandomPositions, moon_gravity \in BOOLEAN, hyper_sheep \in BOOLEAN :
          MoverSpawn(p, moon_gravity, hyper_sheep)
    \/ \E direction \in MoveDeltas : MoverApplyMovement(direction)
    \/ \E p \in RandomPositions : MoverTeleport(p)
    \/ \E delta_ms \in FrameDeltas : ApplyHopMovement(delta_ms)

SpecMove == Init /\ [][NextMove]_vars

\* One mover from its spawn on: steered and moved by apply_hop_movement, never
\* teleported.

\* the displacements the steering adds to the intent: below the hop
\* threshold, across the arena and out of it
HopSteers == {<<3, 3>>, <<600, 0>>, <<0, -500>>}

InitHop ==
    /\ phase = "Title"
    /\ next_phase = NoPhase
    /\ gs = GameStateDefault
    /\ round_stats = RoundStatsDefault
    /\ sheep = NoFlock
    /\ pool = EmptyPool
    /\ round_info = NoRoundInfo
    /\ scored = <<>>
    /\ \E p \in RandomPositions, moon_gravity \in BOOLEAN, hyper_sheep \in BOOLEAN :
          mover = HopMovementController(HopKnobs(moon_gravity, hyper_sheep), p)
    /\ shop_offers = <<>>
    /\ ufo = NoUfo
    /\ evasion = NoEvasion
    /\ tick = NoTick

NextHop ==
    \/ \E direction \in HopSteers : MoverApplyMovement(direction)
    \/ \E delta_ms \in FrameDeltas : ApplyHopMovement(delta_ms)

SpecHop == InitHop /\ [][NextHop]_vars

----------------------------------------------------------------------------
(* The goal check in the middle of a round: a run that owns charms, has a  *)
(* roster of every colour and a score, with sheep near the goal            *)

\* the charms owned, in the order bought
ScoreCharms ==
    {<<>>, <<"Evolution">>, <<"Cloning">>, <<"RedToGold">>, <<"Exponential">>,
     <<"Cloning", "RedToGold">>, <<"Evolution", "Cloning">>}

\* scores: small ones, and 5592409 whose product with 1.5 lies half-way
\* between two f32 values
ScorePoints == {0, 7, 5592409}

\* [sheep_counted, white_sheep_counted] of the round so far; whites are
\* counted only under Evolution
ScoreStats(charms) ==
    {<<0, 0>>, <<2, 0>>}
    \cup (IF Contains(charms, "Evolution") THEN {<<4, 4>>, <<5, 5>>, <<9, 9>>} ELSE {})

\* the sheep near the goal, one per slot option
ScoreSheepOptions ==
    <<NoSheep,
      Sheep("BeingCounted", "White", <<0, 76>>),
      Sheep("BeingCounted", "Blue", <<0, 76>>),
      Sheep("BeingCounted", "Red", <<0, 76>>),
      Sheep("BeingCounted", "Black", <<0, 76>>),
      Sheep("BeingCounted", "Gold", <<0, 76>>),
      Sheep("BeingCounted", "Red", <<3, 70>>),
      Sheep("BeingAbducted", "White", <<0, 76>>),
      Sheep("Wander", "Blue", <<0, 30>>)>>

\* entity ids carry no meaning: the flocks are listed up to renaming
ScoreFlocks ==
    {[e \in SheepIds |-> ScoreSheepOptions[f[e]]] :
        f \in {g \in [SheepIds -> 1..Len(ScoreSheepOptions)] :
                  \A e \in SheepIds : e + 1 \in SheepIds => g[e] >= g[e + 1]}}

\* the run the score belongs to: [completed_rounds, point_target, sheep_count,
\* red_sheep_count]; a score in the millions takes a roster with some forty
\* red sheep and the point target of round 137
ScoreRun(points) ==
    IF points < 14 THEN <<5, 14, 12, 2>> ELSE <<137, 8497646, 120, 40>>

InitScore ==
    /\ phase = "Herding"
    /\ next_phase = NoPhase
    /\ \E charms \in ScoreCharms, points \in ScorePoints :
          /\ gs = [GameStateDefault EXCEPT !.completed_rounds = ScoreRun(points)[1],
                                           !.sheep_count = ScoreRun(points)[3],
                                           !.red_sheep_count = ScoreRun(points)[4],
                                           !.black_sheep_count = 1,
                                           !.gold_sheep_count = 1,
                                           !.points = points,
                                           !.point_target = ScoreRun(points)[2],
                                           !.active_modifiers =
                                               <<"Night", "DogSphere", "Vignette">>,
                                           !.money = 2,
                                           !.charms = charms]
          /\ \E st \in ScoreStats(charms) :
                round_stats = [sheep_counted |-> st[1],
                               white_sheep_counted |-> st[2],
                               black_sheep_counted |-> 0]
    /\ sheep \in ScoreFlocks
    /\ pool = EmptyPool
    /\ round_info = NoRoundInfo
    /\ scored = <<>>
    /\ mover = NoMover
    /\ ufo = NoUfo
    /\ evasion = NoEvasion
    /\ tick = NoTick
    /\ shop_offers = LastOffers(gs)

NextScore ==
    \/ GoalCheck
    \/ \E e \in SheepIds, p \in HerdPositions : MoveSheep(e, p)

\* the goal check of a round under way
SpecScore == InitScore /\ [][NextScore]_vars

----------------------------------------------------------------------------
(* The shop after the second round of a run that owns the Evolution charm   *)

\* [sheep_counted, white_sheep_counted] the round before the shop left behind:
\* the charm bought in this shop, or owned during the round
RoundStatsLeft == {<<2, 0>>, <<4, 3>>}

InitRound ==
    /\ phase = "Shop"
    /\ next_phase = NoPhase
    /\ gs = [GameStateDefault EXCEPT !.completed_rounds = 2,
                                     !.point_target = 7,
                                     !.active_modifiers = <<"Space", "HyperSheep">>,
                                     !.money = 5,
                                     !.charms = <<"Evolution">>]
    /\ \E st \in RoundStatsLeft :
          round_stats = [sheep_counted |-> st[1],
                         white_sheep_counted |-> st[2],
                         black_sheep_counted |-> 0]
    /\ sheep = NoFlock
    /\ pool = EmptyPool
    /\ round_info = NoRoundInfo
    /\ scored = <<>>
    /\ mover = NoMover
    /\ ufo = NoUfo
    /\ evasion = NoEvasion
    /\ tick = NoTick
    /\ shop_offers \in random_unique(shop_count(gs), gs.charms)

\* the round cycle of a run that owns Evolution
SpecRound == InitRound /\ [][Next]_vars

\* the charms of a run that owns RedToGold
RedCharms ==
    {<<"RedToGold">>, <<"RedToGold", "Cloning">>, <<"RedToGold", "HalfTimeDoubleSheep">>}

\* the shop before a round of a run that owns RedToGold and has one Red
\* sheep; the round after the one that converts it has none
InitRed ==
    /\ phase = "Shop"
    /\ next_phase = NoPhase
    /\ \E charms \in RedCharms :
          gs = [GameStateDefault EXCEPT !.completed_rounds = 3,
                                        !.point_target = 9,
                                        !.active_modifiers = <<"Space", "HyperSheep", "Night">>,
                                        !.money = 1,
                                        !.charms = charms]
    /\ round_stats = [RoundStatsDefault EXCEPT !.sheep_counted = 2]
    /\ sheep = NoFlock
    /\ pool = EmptyPool
    /\ round_info = NoRoundInfo
    /\ scored = <<>>
    /\ mover = NoMover
    /\ ufo = NoUfo
    /\ evasion = NoEvasion
    /\ tick = NoTick
    /\ shop_offers = LastOffers(gs)

\* the round cycle of a run that owns RedToGold, until its countdown ends
NextRed ==
    \/ GoalCheck
    \/ \E c \in SheepColor, p \in HerdPositions : Track(c, p)
    \/ \E e \in SheepIds, p \in HerdPositions : MoveSheep(e, p)
    \/ CheckPointsGoal
    \/ EnterHerding
    \/ EnterModifierChoice
    \/ \E i \in 1..2 : ChooseModifier(i)
    \/ EnterShop
    \/ StartNextRound

SpecRed == InitRed /\ [][NextRed]_vars

----------------------------------------------------------------------------
(* The shop of a run in its third round: the offers are those on_shop has   *)
(* just drawn for the charms owned                                          *)

\* the "Buy" button of the item card of a slot
BuyShopItem(slot, roll) ==
    /\ phase = "Shop"
    /\ next_phase = NoPhase
    /\ LET item == IF slot \in 1..Len(shop_offers) THEN shop_offers[slot] ELSE NoItem
       IN  item = BoostItem("MaxCharms") /\ roll => gs.max_charms < MaxCharmSlots
    /\ LET r == buy_shop_item(gs, shop_offers, slot, roll)
       IN  /\ gs' = r.gs
           /\ shop_offers' = r.offers
    /\ UNCHANGED <<phase, next_phase, round_stats, sheep, pool, round_info, scored, mover,
                   ufo, evasion, tick>>

\* the "Sell" button of the charm card of a slot
SellCharm(slot) ==
    /\ phase = "Shop"
    /\ next_phase = NoPhase
    /\ gs' = sell_charm(gs, slot)
    /\ UNCHANGED <<phase, next_phase, round_stats, sheep, pool, round_info, scored,
                   mover, shop_offers,
                   ufo, evasion, tick>>

\* the "Buy a Sheep" button
BuySheep ==
    /\ phase = "Shop"
    /\ next_phase = NoPhase
    /\ gs' = buy_sheep(gs)
    /\ UNCHANGED <<phase, next_phase, round_stats, sheep, pool, round_info, scored,
                   mover, shop_offers,
                   ufo, evasion, tick>>

\* the "Reroll" button
DrawNewItems ==
    /\ phase = "Shop"
    /\ next_phase = NoPhase
    /\ \E drawn \in random_unique(shop_count(gs), gs.charms) :
          LET r == draw_new_items(gs, shop_offers, drawn)
          IN  /\ gs' = r.gs
              /\ shop_offers' = r.offers
    /\ UNCHANGED <<phase, next_phase, round_stats, sheep, pool, round_info, scored, mover,
                   ufo, evasion, tick>>

ShopMoney == {0, 4, 12}

ShopCharms ==
    {<<>>, <<"Evolution">>, <<"Cloning", "ShopCount">>,
     <<"Evolution", "Cloning", "Ink", "RedToGold">>}

InitShop ==
    /\ phase = "Shop"
    /\ next_phase = NoPhase
    /\ \E money \in ShopMoney, charms \in ShopCharms :
          gs = [GameStateDefault EXCEPT !.completed_rounds = 3,
                                        !.point_target = 9,
                                        !.active_modifiers = <<"Space", "HyperSheep", "Night">>,
                                        !.money = money,
                                        !.charms = charms]
    /\ shop_offers \in random_unique(shop_count(gs), gs.charms)
    /\ round_stats = [RoundStatsDefault EXCEPT !.sheep_counted = 3]
    /\ sheep = NoFlock
    /\ pool = EmptyPool
    /\ round_info = NoRoundInfo
    /\ scored = <<>>
    /\ mover = NoMover
    /\ ufo = NoUfo
    /\ evasion = NoEvasion
    /\ tick = NoTick

NextShop ==
    \/ \E slot \in 1..4, roll \in BOOLEAN : BuyShopItem(slot, roll)
    \/ \E slot \in 1..MaxCharmSlots : SellCharm(slot)
    \/ BuySheep

SpecShop == InitShop /\ [][NextShop]_vars

\* the shop with its "Reroll" button, of a run that sells no charm
NextBuy ==
    \/ \E slot \in 1..4, roll \in BOOLEAN : BuyShopItem(slot, roll)
    \/ BuySheep
    \/ DrawNewItems

SpecBuy == InitShop /\ [][NextBuy]_vars

----------------------------------------------------------------------------
(* The end of a round whose point target is reached, at several depths of  *)
(* a run: the targets are those new_round gives after that many rounds     *)

\* <<completed_rounds, point_target, sheep_count, red_sheep_count>>
AdvanceRuns ==
    {<<3, 9, 10, 1>>, <<4, 11, 10, 1>>, <<13, 48, 14, 3>>,
     <<137, 8497646, 120, 40>>, <<194, 1943938397, 120, 60>>}

InitAdvance ==
    /\ phase = "Herding"
    /\ \E run \in AdvanceRuns, over \in {0, 4} :
          /\ gs = [GameStateDefault EXCEPT !.completed_rounds = run[1],
                                           !.sheep_count = run[3],
                                           !.red_sheep_count = run[4],
                                           !.points = run[2] + over,
                                           !.point_target = run[2],
                                           !.active_modifiers =
                                               <<"Space", "HyperSheep", "Night">>,
                                           !.money = 2]
          /\ next_phase = IF run[1] < MaxRounds THEN NoPhase ELSE "ModifierChoice"
    /\ round_stats = [RoundStatsDefault EXCEPT !.sheep_counted = 5]
    /\ sheep = NoFlock
    /\ pool = EmptyPool
    /\ round_info = NoRoundInfo
    /\ scored = <<>>
    /\ mover = NoMover
    /\ ufo = NoUfo
    /\ evasion = NoEvasion
    /\ tick = NoTick
    /\ shop_offers = LastOffers(gs)

NextAdvance ==
    \/ CheckPointsGoal
    \/ EnterModifierChoice
    \/ \E i \in 1..2 : ChooseModifier(i)
    \/ EnterShop

SpecAdvance == InitAdvance /\ [][NextAdvance]_vars

----------------------------------------------------------------------------
(* One call of pick_evasion_dir, lengths in thousandths of a unit *)

\* the bounds of the level, a square of side 20 around the origin, and a
\* square of side 1 that blocks every step alike
EvasionBounds ==
    {[min |-> <<-27600, -39600>>, max |-> <<27600, 7600>>],
     [min |-> <<-10000, -10000>>, max |-> <<10000, 10000>>],
     [min |-> <<-500, -500>>, max |-> <<500, 500>>]}

\* positions from the middle of both bounds to their corners and walls
EvasionPositions ==
    {<<0, 0>>, <<9000, 9000>>, <<9500, 9500>>, <<10000, 10000>>, <<9500, 0>>,
     <<-10000, 7000>>, <<27600, 7600>>, <<27000, -39600>>}

\* the unit vectors of the eight compass directions
EvasionDirections ==
    {<<1000, 0>>, <<707, 707>>, <<0, 1000>>, <<-707, 707>>,
     <<-1000, 0>>, <<-707, -707>>, <<0, -1000>>, <<707, -707>>}

InBoundsOf(bounds, p) == clamp_to(bounds, p) = p

InitEvade ==
    /\ phase = "Herding"
    /\ next_phase = NoPhase
    /\ gs = GameStateDefault
    /\ round_stats = RoundStatsDefault
    /\ sheep = NoFlock
    /\ pool = SpawnTally(gs, 0)
    /\ round_info = NoRoundInfo
    /\ scored = <<>>
    /\ mover = NoMover
    /\ shop_offers = <<>>
    /\ ufo = NoUfo
    /\ \E bounds \in EvasionBounds, pos \in EvasionPositions, preferred \in EvasionDirections :
          /\ InBoundsOf(bounds, pos)
          /\ evasion = [pos |-> pos, preferred |-> preferred, bounds |-> bounds,
                        dir |-> NoVec]
    /\ tick = NoTick

\* sheep_state_update asks for the direction of an evading sheep
PickEvasionDir ==
    /\ evasion # NoEvasion
    /\ evasion.dir = NoVec
    /\ evasion' = [evasion EXCEPT
                      !.dir = pick_evasion_dir(evasion.pos, evasion.preferred, evasion.bounds)]
    /\ UNCHANGED <<phase, next_phase, gs, round_stats, sheep, pool, round_info, scored,
                   mover, shop_offers, ufo, tick>>

SpecEvade == InitEvade /\ [][PickEvasionDir]_vars

----------------------------------------------------------------------------
(* A flock under the Ufo modifier in the second round of a run: sheep near  *)
(* the goal and far from it, the player barking and walking among them.     *)
(* Time passes in steps of whole seconds.                                   *)

\* where a sheep may stand: at squared distance 0.36 from the goal, inside
\* the goal radius, and far from the goal
SheepSpots == {<<0, 76>>, <<0, 30>>, <<0, -100>>}

\* where the player may stand: among the sheep near the goal, and away from
\* every sheep
PlayerSpots == {<<0, 20>>, <<200, -300>>}

\* the time between two ticks of the Ufo's timers
UfoDeltas == {8000}

\* the time between two steps of the ascent of an abducted sheep
AscentDeltas == {2000}

\* sheep_state_update over the flock; the query takes the sheep that have
\* their movement controllers
SheepStateUpdate(player_pos) ==
    /\ phase = "Herding"
    /\ \A e \in Alive(sheep) :
          sheep[e].controllers /\ Steers(sheep[e], player_pos, gs)
             => sheep[e].steers < MaxSteers
    /\ sheep' = [e \in SheepIds |->
                    IF sheep[e] # NoSheep /\ sheep[e].controllers
                    THEN sheep_state_update(sheep[e], player_pos, gs)
                    ELSE sheep[e]]
    /\ scored' = <<>>
    /\ UNCHANGED <<phase, next_phase, gs, round_stats, pool, round_info, mover,
                   shop_offers, ufo, evasion, tick>>

\* handle_bark when the bark key is pressed and the cooldown is over; no
\* SheepTeleport modifier is in the pool
HandleBark(player_pos) ==
    /\ phase = "Herding"
    /\ ~is_modifier_active(gs, "SheepTeleport")
    /\ sheep' = handle_bark(sheep, player_pos, gs)
    /\ sheep' # sheep
    /\ scored' = <<>>
    /\ UNCHANGED <<phase, next_phase, gs, round_stats, pool, round_info, mover,
                   shop_offers, ufo, evasion, tick>>

\* the movement systems bring a sheep that has its controllers to position p,
\* where the steering of the frames before has put its intent
HopSheep(e, p) ==
    /\ phase = "Herding"
    /\ sheep[e] # NoSheep
    /\ sheep[e].controllers
    /\ sheep[e].pos # p
    /\ sheep' = [sheep EXCEPT ![e].pos = p, ![e].intent = p, ![e].steers = 0]
    /\ scored' = <<>>
    /\ UNCHANGED <<phase, next_phase, gs, round_stats, pool, round_info, mover,
                   shop_offers, ufo, evasion, tick>>

TickAbductionTimers(delta_ms) ==
    /\ phase = "Herding"
    /\ ufo # NoUfo
    /\ ufo' = tick_abduction_timers(ufo, delta_ms)
    /\ ufo' # ufo
    /\ UNCHANGED <<phase, next_phase, gs, round_stats, sheep, pool, round_info, scored,
                   mover, shop_offers, evasion, tick>>

PickTargets ==
    /\ phase = "Herding"
    /\ ufo # NoUfo
    /\ \E chosen \in Alive(sheep) \cup {NoTarget} :
          /\ chosen = NoTarget => Alive(sheep) = {}
          /\ ufo' = pick_targets(ufo, chosen)
    /\ ufo' # ufo
    /\ UNCHANGED <<phase, next_phase, gs, round_stats, sheep, pool, round_info, scored,
                   mover, shop_offers, evasion, tick>>

\* update_ufo; the removal of the controllers of an abducted sheep is queued
UpdateUfo(arrives) ==
    /\ phase = "Herding"
    /\ ufo # NoUfo
    /\ LET r == update_ufo(ufo, sheep, arrives)
       IN  /\ ufo' = r.ufo
           /\ sheep' = r.flock
    /\ <<ufo', sheep'>> # <<ufo, sheep>>
    /\ scored' = <<>>
    /\ UNCHANGED <<phase, next_phase, gs, round_stats, pool, round_info, mover,
                   shop_offers, evasion, tick>>

\* the queued commands of update_ufo are applied: the movement controllers
\* of the abducted sheep are removed
ApplyDeferred ==
    /\ phase = "Herding"
    /\ \E e \in Alive(sheep) : is_being_abducted(sheep[e]) /\ sheep[e].controllers
    /\ sheep' = [e \in SheepIds |->
                    IF sheep[e] # NoSheep /\ is_being_abducted(sheep[e])
                    THEN [sheep[e] EXCEPT !.controllers = FALSE]
                    ELSE sheep[e]]
    /\ scored' = <<>>
    /\ UNCHANGED <<phase, next_phase, gs, round_stats, pool, round_info, mover,
                   shop_offers, ufo, evasion, tick>>

\* sheep_abduction_update over the flock, then its despawns
SheepAbductionUpdate(delta_ms) ==
    /\ phase = "Herding"
    /\ \E e \in Alive(sheep) : is_being_abducted(sheep[e])
    /\ sheep' = [e \in SheepIds |->
                    IF sheep[e] # NoSheep THEN sheep_abduction_update(sheep[e], delta_ms)
                    ELSE NoSheep]
    /\ scored' = <<>>
    /\ UNCHANGED <<phase, next_phase, gs, round_stats, pool, round_info, mover,
                   shop_offers, ufo, evasion, tick>>

\* the sheep followed, as spawned: far from the goal, or inside its radius
HerdedOptions ==
    <<NoSheep, HerdedSheep("White", <<0, -100>>), HerdedSheep("White", <<0, 30>>)>>

InitSheep ==
    /\ phase = "Herding"
    /\ next_phase = NoPhase
    /\ gs = [GameStateDefault EXCEPT !.completed_rounds = 1,
                                     !.point_target = 5,
                                     !.active_modifiers = <<"Ufo">>,
                                     !.money = 4]
    /\ round_stats = RoundStatsDefault
    /\ \E f \in [SheepIds -> 1..Len(HerdedOptions)] :
          /\ \A e \in SheepIds : e + 1 \in SheepIds => f[e] >= f[e + 1]
          /\ \A e \in SheepIds : e > MaxFollowed => f[e] = 1
          /\ sheep = [e \in SheepIds |-> HerdedOptions[f[e]]]
    /\ pool = EmptyPool
    /\ round_info = NoRoundInfo
    /\ scored = <<>>
    /\ mover = NoMover
    /\ shop_offers = LastOffers(gs)
    /\ ufo = UfoNew
    /\ evasion = NoEvasion
    /\ tick = NoTick

NextSheep ==
    \/ GoalCheck
    \/ \E player_pos \in PlayerSpots : SheepStateUpdate(player_pos)
    \/ \E player_pos \in PlayerSpots : HandleBark(player_pos)
    \/ \E e \in SheepIds, p \in SheepSpots : HopSheep(e, p)
    \/ \E delta_ms \in UfoDeltas : TickAbductionTimers(delta_ms)
    \/ PickTargets
    \/ \E arrives \in BOOLEAN : UpdateUfo(arrives)
    \/ ApplyDeferred
    \/ \E delta_ms \in AscentDeltas : SheepAbductionUpdate(delta_ms)

SpecSheep == InitSheep /\ [][NextSheep]_vars

----------------------------------------------------------------------------
(* One sheep and the player, in a round without Ufo: the player comes near, *)
(* barks and leaves, the sheep is followed from state update to state       *)
(* update.                                                                   *)

\* where the sheep may stand: next to the player, at 12.6, at exactly 15 and
\* at 17.6 from the place the player barks from
WatchSpots == {<<0, -100>>, <<0, -200>>, <<0, -224>>, <<0, -250>>}

\* where the player may stand: two places within sheep_interact_radius of
\* the first spot, and away from every spot
WatchPlayerSpots == {<<0, -74>>, <<0, -84>>, <<200, -300>>}

\* values reset_timer may draw from min_wait..max_wait
WaitDraws == {1500, 4000, 6999}

\* sheep_state_update over the flock, all the fields of the sheep
SheepStateUpdateAll(player_pos, wait) ==
    /\ phase = "Herding"
    /\ \A e \in Alive(sheep) :
          sheep[e].controllers /\ Steers(sheep[e], player_pos, gs)
             => sheep[e].steers < MaxSteers
    /\ sheep' = [e \in SheepIds |->
                    IF sheep[e] # NoSheep /\ sheep[e].controllers
                    THEN sheep_state_update_all(sheep[e], player_pos, gs, wait)
                    ELSE sheep[e]]
    /\ sheep' # sheep
    /\ scored' = <<>>
    /\ UNCHANGED <<phase, next_phase, gs, round_stats, pool, round_info, mover,
                   shop_offers, ufo, evasion, tick>>

InitWatch ==
    /\ phase = "Herding"
    /\ next_phase = NoPhase
    /\ \E charms \in {<<>>, <<"WellTrained">>} :
          gs = [GameStateDefault EXCEPT !.completed_rounds = 1,
                                        !.point_target = 5,
                                        !.charms = charms,
                                        !.money = 4]
    /\ round_stats = RoundStatsDefault
    /\ \E wait \in WaitDraws :
          sheep = [e \in SheepIds |->
                      IF e = 1 THEN WholeSheep("White", <<0, -100>>, Timer(wait), gs)
                      ELSE NoSheep]
    /\ pool = EmptyPool
    /\ round_info = NoRoundInfo
    /\ scored = <<>>
    /\ mover = NoMover
    /\ shop_offers = LastOffers(gs)
    /\ ufo = NoUfo
    /\ evasion = NoEvasion
    /\ tick = NoTick

NextWatch ==
    \/ \E player_pos \in WatchPlayerSpots, wait \in WaitDraws :
          SheepStateUpdateAll(player_pos, wait)
    \/ \E player_pos \in WatchPlayerSpots : HandleBark(player_pos)
    \/ \E e \in SheepIds, p \in WatchSpots : HopSheep(e, p)

SpecWatch == InitWatch /\ [][NextWatch]_vars

----------------------------------------------------------------------------
(* The frames of a round with the Ufo, system by system.  tick holds what   *)
(* is left of the frame under way:                                          *)
(*   todo         the systems that have not run yet in this frame           *)
(*   delta        time.delta() of the frame, in ms                          *)
(*   player_pos   where the player stands during the frame                  *)
(*   frame        the number of the frame                                   *)
(*   herd_timer, herd_bucket   the Locals of sheep_herding                  *)
(*   barked       whether the bark of the cooldown followed has been given  *)
(*   written      the sheep the sheep_herding of this frame has assigned    *)
(* The sheep stand between two hops: the frames followed do not move them.  *)

\* the frames one behaviour goes through
MaxFrames == 5

\* the chain of plugin: sheep_goal_check, then sheep_state_update, then the
\* tuple (sheep_wander, sheep_herding, sheep_abduction_update)
SheepSystems == {"sheep_goal_check", "sheep_state_update", "sheep_wander",
                 "sheep_herding", "sheep_abduction_update"}

\* the systems of ufo.rs: tick_abduction_timers, and the chain of
\* pick_targets and update_ufo
UfoSystems == {"tick_abduction_timers", "pick_targets", "update_ufo"}

\* a schedule without the chains
BeforeNone(system) == {}

\* the systems system must wait for, by the chains of the two plugins
Before(system) ==
    CASE system = "sheep_state_update" -> {"sheep_goal_check"}
      [] system \in {"sheep_wander", "sheep_herding", "sheep_abduction_update"} ->
            {"sheep_goal_check", "sheep_state_update"}
      [] system = "update_ufo" -> {"pick_targets"}
      [] OTHER -> {}

\* system may run now: it has not run in this frame, what it waits for has
Ready(system) ==
    /\ phase = "Herding"
    /\ tick # NoTick
    /\ system \in tick.todo
    /\ Before(system) \cap tick.todo = {}

Done(system) == [tick EXCEPT !.todo = @ \ {system}]

\* time.delta() of a frame: half the flocking interval, and all of it
TickDeltas == {50, 100}

\* where the player stands: 9.0 from the first sheep, outside
\* sheep_interact_radius and within the bark radius
TickPlayerSpots == {<<0, -190>>}

\* the directions the draw of sheep_wander returns
RandomDirs == {<<10, 0>>, <<-10, 0>>}

\* the waits reset_timer draws in these frames
TickWaits == {1500}

NewTick(frame, delta, player_pos, herd_timer, herd_bucket, barked) ==
    [todo |-> SheepSystems \cup UfoSystems, delta |-> delta, player_pos |-> player_pos,
     frame |-> frame, herd_timer |-> herd_timer, herd_bucket |-> herd_bucket,
     barked |-> barked, written |-> {}]

\* commands queued and not yet applied: the removal of the controllers of a
\* sheep update_ufo has abducted
Queued == \E e \in Alive(sheep) : is_being_abducted(sheep[e]) /\ sheep[e].controllers

RunGoalCheck ==
    /\ Ready("sheep_goal_check")
    /\ \E order \in Orders(Alive(sheep)) :
          LET r == sheep_goal_check(gs, round_stats, sheep, order)
          IN  /\ gs' = r.gs
              /\ round_stats' = r.rs
              /\ sheep' = r.flock
              /\ pool' = [pool EXCEPT !["Black"] = @ + r.spawn]
              /\ scored' = r.log
    /\ tick' = Done("sheep_goal_check")
    /\ UNCHANGED <<phase, next_phase, round_info, mover, shop_offers, ufo, evasion>>

RunStateUpdate ==
    /\ Ready("sheep_state_update")
    /\ \E wait \in TickWaits :
          sheep' = [e \in SheepIds |->
                       IF sheep[e] # NoSheep /\ sheep[e].controllers
                       THEN sheep_state_update_all(sheep[e], tick.player_pos, gs, wait)
                       ELSE sheep[e]]
    /\ tick' = Done("sheep_state_update")
    /\ UNCHANGED <<phase, next_phase, gs, round_stats, pool, round_info, scored, mover,
                   shop_offers, ufo, evasion>>

\* sheep_wander; its query takes the sheep that have their controllers
RunWander ==
    /\ Ready("sheep_wander")
    /\ \E random_dir \in [SheepIds -> RandomDirs], wait \in TickWaits :
          sheep' = [e \in SheepIds |->
                       IF sheep[e] # NoSheep /\ sheep[e].controllers
                       THEN sheep_wander(sheep[e], gs, tick.delta, random_dir[e], wait)
                       ELSE sheep[e]]
    /\ tick' = Done("sheep_wander")
    /\ UNCHANGED <<phase, next_phase, gs, round_stats, pool, round_info, scored, mover,
                   shop_offers, ufo, evasion>>

RunHerding ==
    /\ Ready("sheep_herding")
    /\ LET r == sheep_herding(sheep, tick.herd_timer, tick.herd_bucket, tick.delta)
       IN  /\ sheep' = r.flock
           /\ tick' = [Done("sheep_herding") EXCEPT !.herd_timer = r.herd_timer,
                                                    !.herd_bucket = r.herd_bucket,
                                                    !.written = r.written]
    /\ UNCHANGED <<phase, next_phase, gs, round_stats, pool, round_info, scored, mover,
                   shop_offers, ufo, evasion>>

RunAbductionUpdate ==
    /\ Ready("sheep_abduction_update")
    /\ sheep' = [e \in SheepIds |->
                    IF sheep[e] # NoSheep THEN sheep_abduction_update(sheep[e], tick.delta)
                    ELSE NoSheep]
    /\ tick' = Done("sheep_abduction_update")
    /\ UNCHANGED <<phase, next_phase, gs, round_stats, pool, round_info, scored, mover,
                   shop_offers, ufo, evasion>>

RunTickAbductionTimers ==
    /\ Ready("tick_abduction_timers")
    /\ ufo' = tick_abduction_timers(ufo, tick.delta)
    /\ tick' = Done("tick_abduction_timers")
    /\ UNCHANGED <<phase, next_phase, gs, round_stats, sheep, pool, round_info, scored,
                   mover, shop_offers, evasion>>

RunPickTargets ==
    /\ Ready("pick_targets")
    /\ \E chosen \in Alive(sheep) \cup {NoTarget} :
          /\ chosen = NoTarget => Alive(sheep) = {}
          /\ ufo' = pick_targets(ufo, chosen)
    /\ tick' = Done("pick_targets")
    /\ UNCHANGED <<phase, next_phase, gs, round_stats, sheep, pool, round_info, scored,
                   mover, shop_offers, evasion>>

RunUpdateUfo ==
    /\ Ready("update_ufo")
    /\ \E arrives \in BOOLEAN :
          LET r == update_ufo(ufo, sheep, arrives)
          IN  /\ ufo' = r.ufo
              /\ sheep' = r.flock
    /\ tick' = Done("update_ufo")
    /\ UNCHANGED <<phase, next_phase, gs, round_stats, pool, round_info, scored, mover,
                   shop_offers, evasion>>

\* handle_bark, in a frame in which the bark key is pressed; the bark is
\* followed when it comes before the other systems of the frame
RunHandleBark ==
    /\ phase = "Herding"
    /\ tick # NoTick
    /\ tick.todo = SheepSystems \cup UfoSystems
    /\ ~tick.barked
    /\ ~is_modifier_active(gs, "SheepTeleport")
    /\ sheep' = handle_bark(sheep, tick.player_pos, gs)
    /\ sheep' # sheep
    /\ tick' = [tick EXCEPT !.barked = TRUE]
    /\ UNCHANGED <<phase, next_phase, gs, round_stats, pool, round_info, scored, mover,
                   shop_offers, ufo, evasion>>

\* a sync point of the schedule: the queued commands are applied
RunDeferred ==
    /\ phase = "Herding"
    /\ tick # NoTick
    /\ Queued
    /\ sheep' = [e \in SheepIds |->
                    IF sheep[e] # NoSheep /\ is_being_abducted(sheep[e])
                    THEN [sheep[e] EXCEPT !.controllers = FALSE]
                    ELSE sheep[e]]
    /\ UNCHANGED <<phase, next_phase, gs, round_stats, pool, round_info, scored, mover,
                   shop_offers, ufo, evasion, tick>>

\* the schedule has run every system and applied every command: the next
\* frame begins
NextFrame ==
    /\ phase = "Herding"
    /\ tick # NoTick
    /\ tick.todo = {}
    /\ ~Queued
    /\ tick.frame < MaxFrames
    /\ tick' = NewTick(tick.frame + 1, tick.delta, tick.player_pos, tick.herd_timer,
                       tick.herd_bucket, tick.barked)
    /\ scored' = <<>>
    /\ UNCHANGED <<phase, next_phase, gs, round_stats, sheep, pool, round_info, mover,
                   shop_offers, ufo, evasion>>

\* where sheep e stands when the frames followed begin: the first away from
\* the goal, the second 1.0 from the first or 0.6 from the goal, the others
\* 1.0 from the first on the other side
TickSpots(e) ==
    CASE e = 1 -> {<<0, -100>>}
      [] e = 2 -> {<<10, -100>>, <<0, 76>>}
      [] OTHER -> {<<-10, -100>>}

\* the Wander timer of sheep e when the frames followed begin: the timer of
\* the first finishes in the first 100 ms, the others have been reset
TickTimer(e) == IF e = 1 THEN TimerTick(Timer(min_wait), min_wait - 100) ELSE Timer(min_wait)

InitTick ==
    /\ phase = "Herding"
    /\ next_phase = NoPhase
    /\ gs = [GameStateDefault EXCEPT !.completed_rounds = 1,
                                     !.point_target = 5,
                                     !.active_modifiers = <<"Ufo">>,
                                     !.money = 4]
    /\ round_stats = RoundStatsDefault
    /\ \E at \in [SheepIds -> UNION {TickSpots(e) : e \in SheepIds}] :
          /\ \A e \in SheepIds : at[e] \in TickSpots(e)
          /\ sheep = [e \in SheepIds |-> WholeSheep("White", at[e], TickTimer(e), gs)]
    /\ pool = EmptyPool
    /\ round_info = NoRoundInfo
    /\ scored = <<>>
    /\ mover = NoMover
    /\ shop_offers = LastOffers(gs)
    /\ ufo = tick_abduction_timers(UfoNew, UFO_ABDUCTION_SECONDS)
    /\ evasion = NoEvasion
    /\ \E delta \in TickDeltas, player_pos \in TickPlayerSpots :
          tick = NewTick(1, delta, player_pos, 0, 0, FALSE)

NextTick ==
    \/ RunGoalCheck
    \/ RunStateUpdate
    \/ RunWander
    \/ RunHerding
    \/ RunAbductionUpdate
    \/ RunTickAbductionTimers
    \/ RunPickTargets
    \/ RunUpdateUfo
    \/ RunHandleBark
    \/ RunDeferred
    \/ NextFrame

SpecTick == InitTick /\ [][NextTick]_vars

----------------------------------------------------------------------------
(* The flocking refresh over the arena: the flock starts anywhere, the      *)
(* first sheep is brought from position to position by the movement         *)
(* systems, and sheep_herding runs frame after frame.  The other systems of *)
(* the frames are not followed.                                             *)

\* positions on both sides of the cell borders at 0, 10.0 and -10.0, and in
\* the cells beyond
CellSpots ==
    {<<0, 0>>, <<-1, 0>>, <<99, 0>>, <<100, 0>>, <<-100, -1>>, <<-101, -101>>,
     <<199, 50>>}

SheepHerding ==
    /\ phase = "Herding"
    /\ tick # NoTick
    /\ LET r == sheep_herding(sheep, tick.herd_timer, tick.herd_bucket, tick.delta)
       IN  /\ sheep' = r.flock
           /\ tick' = [tick EXCEPT !.herd_timer = r.herd_timer,
                                   !.herd_bucket = r.herd_bucket,
                                   !.written = r.written]
    /\ UNCHANGED <<phase, next_phase, gs, round_stats, pool, round_info, scored, mover,
                   shop_offers, ufo, evasion>>

InitCell ==
    /\ phase = "Herding"
    /\ next_phase = NoPhase
    /\ gs = [GameStateDefault EXCEPT !.completed_rounds = 1,
                                     !.point_target = 5,
                                     !.money = 4]
    /\ round_stats = RoundStatsDefault
    /\ \E at \in [SheepIds -> CellSpots] :
          sheep = [e \in SheepIds |-> WholeSheep("White", at[e], Timer(min_wait), gs)]
    /\ pool = EmptyPool
    /\ round_info = NoRoundInfo
    /\ scored = <<>>
    /\ mover = NoMover
    /\ shop_offers = LastOffers(gs)
    /\ ufo = NoUfo
    /\ evasion = NoEvasion
    /\ tick = [NewTick(1, HERD_UPDATE_INTERVAL_SECS, <<200, -300>>, 0, 0, FALSE)
                  EXCEPT !.todo = {}]

NextCell ==
    \/ SheepHerding
    \/ \E p \in CellSpots : HopSheep(1, p)

SpecCell == InitCell /\ [][NextCell]_vars

----------------------------------------------------------------------------
(* The sheep systems in a world without its goal entity or without a        *)
(* player.  tick records which of the two exist and whether a system has    *)
(* panicked; a panic ends the app.                                          *)

\* one spot within GOAL_RADIUS of the goal, one on the goal, two away from it
AbsentSpots == {<<0, 40>>, <<0, 80>>, <<0, -100>>, <<0, -200>>}

AbsentPlayerSpot == <<0, -84>>

AbsentStates == {"Wander", "Evading", "Spooked", "BeingCounted"}

AbsentSheep(state, pos, g) ==
    LET w == WholeSheep("White", pos, Timer(min_wait), g)
    IN  CASE state = "Wander" -> w
          [] state = "Evading" ->
                DropTimer([w EXCEPT !.state = "Evading", !.danger_pos = AbsentPlayerSpot,
                                    !.herd_dir = <<10, 0>>])
          [] state = "Spooked" ->
                become_spooked([w EXCEPT !.herd_dir = <<10, 0>>], AbsentPlayerSpot)
          [] state = "BeingCounted" -> BeCounted(w)

\* the body of sheep_state_update for one sheep when player_query is empty:
\* the loops over the players run no iteration
sheep_state_update_no_player(s, g) ==
    CASE s.state = "Wander" -> [s EXCEPT !.move_speed_mult = default_speed_mult(g)]
      [] s.state = "Evading" -> s
      [] s.state = "Spooked" -> [s EXCEPT !.herd_dir = Zero]
      [] OTHER -> sheep_state_update_all(s, s.pos, g, min_wait)

\* goal_query.single().unwrap() in the BeingCounted arm
UnwrapsNoGoal ==
    /\ ~tick.goal
    /\ \E e \in Alive(sheep) : sheep[e].controllers /\ sheep[e].state = "BeingCounted"

\* sheep_goal_check takes the goal as a Single: the system is skipped while
\* there is no goal entity
AbsentGoalCheck ==
    /\ phase = "Herding"
    /\ ~tick.failed
    /\ IF tick.goal
       THEN GoalCheck
       ELSE UNCHANGED vars

AbsentStateUpdate ==
    /\ phase = "Herding"
    /\ ~tick.failed
    /\ IF UnwrapsNoGoal
       THEN /\ tick' = [tick EXCEPT !.failed = TRUE]
            /\ UNCHANGED sheep
       ELSE /\ \A e \in Alive(sheep) :
                  /\ sheep[e].controllers
                  /\ IF tick.player THEN Steers(sheep[e], AbsentPlayerSpot, gs)
                     ELSE sheep[e].state = "BeingCounted"
                  => sheep[e].steers < MaxSteers
            /\ \E wait \in WaitDraws :
                  sheep' = [e \in SheepIds |->
                               IF sheep[e] # NoSheep /\ sheep[e].controllers
                               THEN IF tick.player
                                    THEN sheep_state_update_all(sheep[e], AbsentPlayerSpot,
                                                                gs, wait)
                                    ELSE sheep_state_update_no_player(sheep[e], gs)
                               ELSE sheep[e]]
            /\ UNCHANGED tick
    /\ UNCHANGED <<phase, next_phase, gs, round_stats, pool, round_info, scored, mover,
                   shop_offers, ufo, evasion>>

AbsentHop(e, p) ==
    /\ ~tick.failed
    /\ HopSheep(e, p)

InitAbsent ==
    /\ phase = "Herding"
    /\ next_phase = NoPhase
    /\ gs = [GameStateDefault EXCEPT !.completed_rounds = 1,
                                     !.point_target = 5,
                                     !.money = 4]
    /\ round_stats = RoundStatsDefault
    /\ \E st \in [SheepIds -> AbsentStates], at \in [SheepIds -> AbsentSpots] :
          sheep = [e \in SheepIds |-> AbsentSheep(st[e], at[e], gs)]
    /\ pool = EmptyPool
    /\ round_info = NoRoundInfo
    /\ scored = <<>>
    /\ mover = NoMover
    /\ shop_offers = LastOffers(gs)
    /\ ufo = NoUfo
    /\ evasion = NoEvasion
    /\ \E goal \in BOOLEAN, player \in BOOLEAN :
          /\ ~(goal /\ player)
          /\ tick = [goal |-> goal, player |-> player, failed |-> FALSE]

NextAbsent ==
    \/ AbsentGoalCheck
    \/ AbsentStateUpdate
    \/ \E e \in SheepIds, p \in AbsentSpots : AbsentHop(e, p)

SpecAbsent == InitAbsent /\ [][NextAbsent]_vars

----------------------------------------------------------------------------
(* The Ufo against the clock.  tick.clock is the time the Ufo's timers have *)
(* been ticked for since the round began, tick.abductions the clock at each *)
(* abduction the Ufo has started.                                           *)

\* the end of the clock, in milliseconds
MaxClock == 20000

\* the time between two ticks of the Ufo's timers
ClockDeltas == {1000, 4000}

Abducts(e) ==
    /\ sheep[e] # NoSheep
    /\ ~is_being_abducted(sheep[e])
    /\ sheep'[e] # NoSheep
    /\ is_being_abducted(sheep'[e])

ClockTickAbductionTimers(delta_ms) ==
    /\ phase = "Herding"
    /\ tick.clock + delta_ms <= MaxClock
    /\ ufo' = tick_abduction_timers(ufo, delta_ms)
    /\ tick' = [tick EXCEPT !.clock = @ + delta_ms]
    /\ UNCHANGED <<phase, next_phase, gs, round_stats, sheep, pool, round_info, scored,
                   mover, shop_offers, evasion>>

ClockUpdateUfo(arrives) ==
    /\ phase = "Herding"
    /\ LET r == update_ufo(ufo, sheep, arrives)
       IN  /\ ufo' = r.ufo
           /\ sheep' = r.flock
    /\ <<ufo', sheep'>> # <<ufo, sheep>>
    /\ tick' = IF \E e \in SheepIds : Abducts(e)
               THEN [tick EXCEPT !.abductions = Append(@, tick.clock)]
               ELSE tick
    /\ scored' = <<>>
    /\ UNCHANGED <<phase, next_phase, gs, round_stats, pool, round_info, mover,
                   shop_offers, evasion>>

InitUfo ==
    /\ phase = "Herding"
    /\ next_phase = NoPhase
    /\ gs = [GameStateDefault EXCEPT !.completed_rounds = 1,
                                     !.point_target = 5,
                                     !.active_modifiers = <<"Ufo">>,
                                     !.money = 4]
    /\ round_stats = RoundStatsDefault
    /\ \E at \in [SheepIds -> SheepSpots] :
          sheep = [e \in SheepIds |-> HerdedSheep("White", at[e])]
    /\ pool = EmptyPool
    /\ round_info = NoRoundInfo
    /\ scored = <<>>
    /\ mover = NoMover
    /\ shop_offers = LastOffers(gs)
    /\ ufo = UfoNew
    /\ evasion = NoEvasion
    /\ tick = [clock |-> 0, abductions |-> <<>>]

NextUfo ==
    \/ \E delta_ms \in ClockDeltas : ClockTickAbductionTimers(delta_ms)
    \/ PickTargets
    \/ \E arrives \in BOOLEAN : ClockUpdateUfo(arrives)
    \/ GoalCheck

SpecUfo == InitUfo /\ [][NextUfo]_vars

----------------------------------------------------------------------------
(* The ascent of an abducted sheep, frame by frame.  The first sheep is     *)
(* followed with its Transform (pos, and y in tenths) and, in mover, its    *)
(* HopMovementController; the Ufo hangs over it with the sheep as target.   *)
(* A frame runs the systems of tick.todo, pick_targets before update_ufo    *)
(* and the others in any order: update_ufo, sheep_abduction_update and      *)
(* apply_hop_movement are in no order to each other.  The removal of the    *)
(* controllers that update_ufo queues is applied at a sync point after it,  *)
(* at the latest at the end of the frame.                                   *)

AscentSystems ==
    {"tick_abduction_timers", "pick_targets", "update_ufo", "sheep_abduction_update",
     "apply_hop_movement"}

\* the frame times followed, in milliseconds
AscentFrameDeltas == {40}

\* what is left on the Ufo's abduction timer when the sheep is first followed
AscentLeft == {40, 160, 240, 280, 320, 400}

AscentSpot == <<0, -100>>

AscentRuns(system) ==
    /\ phase = "Herding"
    /\ system \in tick.todo
    /\ tick' = [tick EXCEPT !.todo = @ \ {system}]

AscentTickTimers ==
    /\ AscentRuns("tick_abduction_timers")
    /\ ufo' = tick_abduction_timers(ufo, tick.delta)
    /\ UNCHANGED <<phase, next_phase, gs, round_stats, sheep, pool, round_info, scored,
                   mover, shop_offers, evasion>>

AscentPickTargets ==
    /\ AscentRuns("pick_targets")
    /\ ufo' = pick_targets(ufo, IF sheep[1] = NoSheep THEN NoTarget ELSE 1)
    /\ UNCHANGED <<phase, next_phase, gs, round_stats, sheep, pool, round_info, scored,
                   mover, shop_offers, evasion>>

\* update_ufo is chained after pick_targets
AscentUpdateUfo ==
    /\ AscentRuns("update_ufo")
    /\ "pick_targets" \notin tick.todo
    /\ LET r == update_ufo(ufo, sheep, TRUE)
       IN  /\ ufo' = r.ufo
           /\ sheep' = r.flock
    /\ UNCHANGED <<phase, next_phase, gs, round_stats, pool, round_info, scored, mover,
                   shop_offers, evasion>>

AscentAbductionUpdate ==
    /\ AscentRuns("sheep_abduction_update")
    /\ sheep' = [e \in SheepIds |->
                    IF sheep[e] # NoSheep THEN sheep_abduction_update(sheep[e], tick.delta)
                    ELSE NoSheep]
    /\ mover' = IF sheep'[1] = NoSheep THEN NoMover ELSE mover
    /\ UNCHANGED <<phase, next_phase, gs, round_stats, pool, round_info, scored,
                   shop_offers, ufo, evasion>>

\* apply_hop_movement: the query takes the sheep while it has its controller,
\* and the Transform is written while the controller is airborne
AscentHopMovement ==
    /\ AscentRuns("apply_hop_movement")
    /\ IF mover = NoMover
       THEN UNCHANGED <<mover, sheep>>
       ELSE LET c == apply_hop_movement(mover, tick.delta)
            IN  /\ mover' = c
                /\ sheep' = IF c.airborne
                            THEN [sheep EXCEPT ![1].pos = c.pos, ![1].y = c.y \div 100]
                            ELSE sheep
    /\ UNCHANGED <<phase, next_phase, gs, round_stats, pool, round_info, scored,
                   shop_offers, ufo, evasion>>

AscentQueued == sheep[1] # NoSheep /\ is_being_abducted(sheep[1]) /\ sheep[1].controllers

\* a sync point: the controllers of the abducted sheep are removed
AscentDeferred ==
    /\ phase = "Herding"
    /\ AscentQueued
    /\ sheep' = [sheep EXCEPT ![1].controllers = FALSE]
    /\ mover' = NoMover
    /\ UNCHANGED <<phase, next_phase, gs, round_stats, pool, round_info, scored,
                   shop_offers, ufo, evasion, tick>>

AscentNextFrame ==
    /\ phase = "Herding"
    /\ tick.todo = {}
    /\ ~AscentQueued
    /\ tick' = [tick EXCEPT !.todo = AscentSystems]
    /\ UNCHANGED <<phase, next_phase, gs, round_stats, sheep, pool, round_info, scored,
                   mover, shop_offers, ufo, evasion>>

\* the sheep has wandered for a while and been given an intent one unit
\* away; the Ufo has picked it and reached it
InitAscent ==
    /\ phase = "Herding"
    /\ next_phase = NoPhase
    /\ gs = [GameStateDefault EXCEPT !.completed_rounds = 1,
                                     !.point_target = 5,
                                     !.active_modifiers = <<"Ufo">>,
                                     !.money = 4]
    /\ round_stats = RoundStatsDefault
    /\ sheep = [e \in SheepIds |->
                  IF e = 1 THEN HerdedSheep("White", AscentSpot) ELSE NoSheep]
    /\ pool = EmptyPool
    /\ round_info = NoRoundInfo
    /\ scored = <<>>
    /\ mover = apply_movement(HopMovementController(HopKnobs(FALSE, FALSE), AscentSpot),
                              <<0, 10>>)
    /\ shop_offers = LastOffers(gs)
    /\ \E left \in AscentLeft :
          ufo = [tick_abduction_timers(UfoNew, UFO_ABDUCTION_SECONDS - left)
                    EXCEPT !.target = 1, !.pos = AscentSpot]
    /\ evasion = NoEvasion
    /\ \E delta \in AscentFrameDeltas : tick = [todo |-> AscentSystems, delta |-> delta]

NextAscent ==
    \/ AscentTickTimers
    \/ AscentPickTargets
    \/ AscentUpdateUfo
    \/ AscentAbductionUpdate
    \/ AscentHopMovement
    \/ AscentDeferred
    \/ AscentNextFrame

SpecAscent == InitAscent /\ [][NextAscent]_vars

\* frames keep coming, each with its systems
SpecAscentFair == SpecAscent /\ WF_vars(NextAscent)

----------------------------------------------------------------------------
(* Properties *)

\* the scorings of the last goal check
ScoredEntries == {scored[i] : i \in 1..Len(scored)}

Owned(en, charm) == Contains(en.before.gs.charms, charm)

FirstCounted(en) == en.before.rs.sheep_counted = 0

PointsDelta(en) == en.after.gs.points - en.before.gs.points

MoneyDelta(en) == en.after.gs.money - en.before.gs.money

C2_NoCharmDeltas ==
    \A en \in ScoredEntries :
        en.before.gs.charms = <<>> =>
            /\ en.sheep.color = "White" => PointsDelta(en) = 1 /\ MoneyDelta(en) = 0
            /\ en.sheep.color = "Blue"  => PointsDelta(en) = 5 /\ MoneyDelta(en) = 0
            /\ en.sheep.color = "Black" => PointsDelta(en) = 1 /\ MoneyDelta(en) = 0
            /\ en.sheep.color = "Gold"  => PointsDelta(en) = 0 /\ MoneyDelta(en) = 1

\* a Gold and a Blue sheep scored in one goal check with no charm owned, the
\* Gold one second
C2_Witness ==
    /\ Len(scored) = 2
    /\ gs.charms = <<>>
    /\ scored[1].sheep.color = "Blue"
    /\ scored[2].sheep.color = "Gold"
    /\ scored[1].before.gs.points > 0

\* C3: a scored Red sheep replaces points by points + points div 2, the floor
\* of points * 1.5, and leaves the money unchanged; at 0 points stay 0
C3_RedFloorExact ==
    \A en \in ScoredEntries :
        en.sheep.color = "Red" =>
            /\ en.after.gs.points = RedPointsExact(en.before.gs.points)
            /\ MoneyDelta(en) = 0

\* C4: a sheep is scored only while BeingCounted and closer to the goal than
\* squared distance 1.5, and it is removed by the same goal check, so a goal
\* check counts each sheep it scores once
C4_ScoredOnce ==
    /\ \A en \in ScoredEntries :
          /\ en.sheep.state = "BeingCounted"
          /\ DistSq(en.sheep.pos, GOAL_POSITION) < GOAL_SCORE_DIST_SQ
          /\ sheep[en.entity] = NoSheep
          /\ en.after.rs.sheep_counted = Add16(en.before.rs.sheep_counted, 1)
    /\ \A i, j \in 1..Len(scored) : scored[i].entity = scored[j].entity => i = j
    /\ scored # <<>> =>
          round_stats.sheep_counted = Add16(scored[1].before.rs.sheep_counted, Len(scored))

\* one sheep scored and removed while a sheep being abducted, as close to the
\* goal, stays
C4_Witness ==
    /\ Len(scored) = 1
    /\ \E e \in Alive(sheep) :
          /\ sheep[e].state = "BeingAbducted"
          /\ DistSq(sheep[e].pos, GOAL_POSITION) < GOAL_SCORE_DIST_SQ

\* C5: with Evolution owned a scored White sheep adds no points, and the Blue
\* tally grows by one exactly when the white counter comes to a multiple of 5;
\* the trigger leaves sheep_count as it is
C5_Evolution ==
    \A en \in ScoredEntries :
        (en.sheep.color = "White" /\ Owned(en, "Evolution")) =>
            /\ PointsDelta(en) = 0
            /\ MoneyDelta(en) = 0
            /\ en.after.rs.white_sheep_counted = Add16(en.before.rs.white_sheep_counted, 1)
            /\ en.after.gs.blue_sheep_count =
                  Add16(en.before.gs.blue_sheep_count,
                        IF en.after.rs.white_sheep_counted % 5 = 0 THEN 1 ELSE 0)
            /\ ~(FirstCounted(en) /\ Owned(en, "Cloning")) =>
                  en.after.gs.sheep_count = en.before.gs.sheep_count

\* the fifth white sheep counted turns one sheep of the roster blue
C5_Witness ==
    \E en \in ScoredEntries :
        /\ en.sheep.color = "White"
        /\ Owned(en, "Evolution")
        /\ en.before.rs.white_sheep_counted = 4
        /\ en.after.gs.blue_sheep_count = en.before.gs.blue_sheep_count + 1

\* C6 as stated: entering the Herding phase leaves the white-sheep counter of
\* Evolution unchanged
C6_CounterPersists ==
    [][(phase # "Herding" /\ phase' = "Herding") =>
          round_stats'.white_sheep_counted = round_stats.white_sheep_counted]_vars

\* C6, amended: entering the Herding phase resets the white-sheep counter of
\* Evolution to 0, with the other counters of the round
C6_CounterReset ==
    [][(phase # "Herding" /\ phase' = "Herding") => round_stats' = RoundStatsDefault]_vars

\* a new round of a run that owns Evolution has started, nothing counted yet
C6_Witness ==
    /\ phase = "Herding"
    /\ is_charm_active(gs, "Evolution")
    /\ gs.completed_rounds >= 2
    /\ round_stats.white_sheep_counted = 0
    /\ pool["White"] > 0

\* the tallies of the roster
Roster(g) ==
    [n \in {"sheep_count", "blue_sheep_count", "red_sheep_count",
            "black_sheep_count", "gold_sheep_count"} |-> g[n]]

\* what Evolution and RedToGold do to the roster when en is scored
RosterConverted(en) ==
    LET g == en.before.gs
        evolves == /\ en.sheep.color = "White"
                   /\ Owned(en, "Evolution")
                   /\ en.after.rs.white_sheep_counted % 5 = 0
        converts == en.sheep.color = "Red" /\ FirstCounted(en) /\ Owned(en, "RedToGold")
    IN  [sheep_count |-> g.sheep_count,
         blue_sheep_count |-> IF evolves THEN Add16(g.blue_sheep_count, 1)
                              ELSE g.blue_sheep_count,
         red_sheep_count |-> IF converts THEN Sub16(g.red_sheep_count, 1)
                             ELSE g.red_sheep_count,
         black_sheep_count |-> g.black_sheep_count,
         gold_sheep_count |-> IF converts THEN Add16(g.gold_sheep_count, 1)
                              ELSE g.gold_sheep_count]

TallyOf(color) ==
    CASE color = "Blue"  -> "blue_sheep_count"
      [] color = "Red"   -> "red_sheep_count"
      [] color = "Black" -> "black_sheep_count"
      [] color = "Gold"  -> "gold_sheep_count"

\* the roster with one more sheep of the colour
RosterCloned(r, color) ==
    LET r1 == [r EXCEPT !.sheep_count = Add16(@, 1)]
    IN  IF color = "White" THEN r1 ELSE [r1 EXCEPT ![TallyOf(color)] = Add16(@, 1)]

\* C7: with Cloning owned, the sheep scored while sheep_counted = 0 adds one to
\* sheep_count and, unless it is White, one to the tally of its colour; a sheep
\* scored later in the round adds none, also in the same goal check
C7_CloneFirstOnly ==
    \A en \in ScoredEntries :
        Owned(en, "Cloning") =>
            Roster(en.after.gs) =
                IF FirstCounted(en) THEN RosterCloned(RosterConverted(en), en.sheep.color)
                ELSE RosterConverted(en)

\* two sheep scored in one goal check: the first, not White, is cloned, the
\* second is not
C7_Witness ==
    /\ Len(scored) = 2
    /\ Owned(scored[1], "Cloning")
    /\ FirstCounted(scored[1])
    /\ scored[1].sheep.color = "Blue"
    /\ scored[1].after.gs.blue_sheep_count = scored[1].before.gs.blue_sheep_count + 1
    /\ scored[2].after.gs.sheep_count = scored[2].before.gs.sheep_count
    /\ gs.sheep_count = scored[1].before.gs.sheep_count + 1

\* C8: with RedToGold owned, a Red sheep counted first in its round moves one
\* unit of the roster from the Red tally to the Gold tally; a Red sheep that
\* is not the first counted moves none
C8_RedToGold ==
    \A en \in ScoredEntries :
        (en.sheep.color = "Red" /\ Owned(en, "RedToGold")) =>
            LET cloned == IF FirstCounted(en) /\ Owned(en, "Cloning") THEN 1 ELSE 0
                g == en.before.gs
            IN  IF FirstCounted(en)
                THEN /\ en.after.gs.red_sheep_count =
                           Add16(Sub16(g.red_sheep_count, 1), cloned)
                     /\ en.after.gs.gold_sheep_count = Add16(g.gold_sheep_count, 1)
                ELSE /\ en.after.gs.red_sheep_count = g.red_sheep_count
                     /\ en.after.gs.gold_sheep_count = g.gold_sheep_count

\* two Red sheep scored in one goal check: the first is converted, the second
\* is not
C8_Witness ==
    /\ Len(scored) = 2
    /\ scored[1].sheep.color = "Red"
    /\ scored[2].sheep.color = "Red"
    /\ Owned(scored[1], "RedToGold")
    /\ ~Owned(scored[1], "Cloning")
    /\ FirstCounted(scored[1])
    /\ scored[1].after.gs.red_sheep_count = scored[1].before.gs.red_sheep_count - 1
    /\ gs.red_sheep_count = scored[1].after.gs.red_sheep_count
    /\ gs.gold_sheep_count = scored[1].before.gs.gold_sheep_count + 1

\* C9: a round advance with 3 active modifiers evicts the oldest, the one at
\* index 0, and no other, and offers exactly 2 candidates, distinct from each
\* other and from the modifiers still active
C9_EvictOneOfferTwo ==
    [][(Len(gs.active_modifiers) = 3 /\ gs'.completed_rounds = gs.completed_rounds + 1) =>
          LET choices == round_info'.modifier_choices
          IN  /\ gs'.active_modifiers = Tail(gs.active_modifiers)
              /\ round_info'.removed_modifier = Head(gs.active_modifiers)
              /\ Len(choices) = 2
              /\ choices[1] # choices[2]
              /\ \A i \in 1..2 : ~Contains(gs'.active_modifiers, choices[i])]_vars

C11_CharmsWithinMax == Len(gs.charms) <= gs.max_charms

\* the Dream Catcher raised max_charms to 5 and a fifth charm was bought
C11_Witness ==
    /\ phase = "Shop"
    /\ gs.max_charms = 5
    /\ Len(gs.charms) = 5
    /\ \E slot \in 1..Len(shop_offers) : shop_offers[slot] = NoItem

\* C12: selling an owned charm removes it from the charms and raises money by
\* exactly floor(price / 2), the amount written on its Sell button
C12_SellRefundsHalf ==
    [][Len(gs'.charms) < Len(gs.charms)
         => \E slot \in 1..Len(gs.charms) :
               /\ gs'.charms = RemoveAt(gs.charms, slot)
               /\ gs'.money = gs.money + sell_price(gs.charms[slot])]_vars

\* C13: every round advance (new_round) raises point_target by exactly
\* 2 + floor(point_target / 10) of its value before the advance, sets points
\* to 0 and adds one to completed_rounds; point_target grows strictly
C13_TargetGrowth ==
    [][gs'.completed_rounds # gs.completed_rounds
         => /\ gs'.completed_rounds = gs.completed_rounds + 1
            /\ gs'.point_target = gs.point_target + 2 + (gs.point_target \div 10)
            /\ gs'.point_target > gs.point_target
            /\ gs'.points = 0]_vars

\* the advance out of a target of 48 has been made: 48 + 2 + 4 = 54
C13_Witness ==
    /\ phase = "ModifierChoice"
    /\ gs.completed_rounds = 14
    /\ gs.point_target = 54
    /\ gs.points = 0

\* C18 as stated: airborne is true exactly when current_hop_src and
\* current_hop_dest are both set, and the two endpoints are always both set
\* or both cleared
C18_AirborneIffEndpoints ==
    mover # NoMover =>
        /\ mover.airborne <=>
              (mover.current_hop_src # NoVec /\ mover.current_hop_dest # NoVec)
        /\ (mover.current_hop_src = NoVec) <=> (mover.current_hop_dest = NoVec)

\* C18, amended: an airborne controller has both current_hop_src and
\* current_hop_dest set, and the two endpoints are always both set or both
\* cleared; a controller on the ground may hold the endpoints of its last hop
C18_AirborneHasEndpoints ==
    mover # NoMover =>
        /\ mover.airborne =>
              (mover.current_hop_src # NoVec /\ mover.current_hop_dest # NoVec)
        /\ (mover.current_hop_src = NoVec) <=> (mover.current_hop_dest = NoVec)

\* a controller that has landed from a hop and is in the air again
C18_Witness ==
    /\ mover # NoMover
    /\ mover.airborne
    /\ mover.hops = 2
    /\ mover.current_hop_src # NoVec
    /\ mover.current_hop_dest # NoVec

\* C20: after each step of the hop movement of an airborne sheep, its height is jump_height_mult * 4t(1 - t)
\* and its planar position is lerp(current_hop_src, current_hop_dest, t), t
\* being the fraction of the hop elapsed: at t = 0.5 a Moon Gravity sheep
\* (jump_height_mult 6) is at height 6 and a sheep of multiplier 1 at height 1
C20_HopArc ==
    [][(\E delta_ms \in FrameDeltas : ApplyHopMovement(delta_ms)) /\ mover'.airborne
         => /\ mover'.y = (mover'.jump_height_mult * jump_height(mover'.timer)) \div 100
            /\ mover'.pos =
                  <<lerp(mover'.current_hop_src[1],
                         clamp_to_bounds(mover'.current_hop_dest)[1], mover'.timer),
                    lerp(mover'.current_hop_src[2],
                         clamp_to_bounds(mover'.current_hop_dest)[2], mover'.timer)>>]_vars

\* the call C19 is about: bounds [(-10,-10),(10,10)], position (9,9),
\* preferred direction (1,1) normalized
CornerCall ==
    /\ evasion # NoEvasion
    /\ evasion.bounds = [min |-> <<-10000, -10000>>, max |-> <<10000, 10000>>]
    /\ evasion.pos = <<9000, 9000>>
    /\ evasion.preferred = <<707, 707>>
    /\ evasion.dir # NoVec

\* dir is one of the four candidates and none has a larger clamped displacement
LargestDisplacement(dir, pos, preferred, bounds) ==
    LET candidates == {preferred, perp(preferred), Neg(perp(preferred)), Neg(preferred)}
    IN  /\ dir \in candidates
        /\ \A other \in candidates :
              ClampedDisplacement(pos, other, bounds) <= ClampedDisplacement(pos, dir, bounds)

\* C19 as stated: for bounds [(-10,-10),(10,10)], position (9,9) and preferred
\* direction (1,1) normalized, pick_evasion_dir returns a direction other than
\* the preferred one, and it is the candidate of largest clamped displacement
C19_CornerNotPreferred ==
    CornerCall =>
        /\ evasion.dir # evasion.preferred
        /\ LargestDisplacement(evasion.dir, evasion.pos, evasion.preferred, evasion.bounds)

\* C19, amended: for those arguments pick_evasion_dir returns the preferred
\* direction, which the bounds do not block; and the direction any call
\* returns is a candidate of largest clamped displacement
C19_CornerKeepsPreferred ==
    /\ CornerCall => evasion.dir = evasion.preferred
    /\ evasion # NoEvasion /\ evasion.dir # NoVec =>
          LargestDisplacement(evasion.dir, evasion.pos, evasion.preferred, evasion.bounds)

\* the call has returned, the whole step of the preferred direction allowed
C19_Witness ==
    /\ CornerCall
    /\ ClampedDisplacement(evasion.pos, evasion.preferred, evasion.bounds)
          = DistSq(evasion.preferred, <<0, 0>>)

\* the herded sheep of the flock
Herded == {e \in SheepIds : sheep[e] # NoSheep /\ "controllers" \in DOMAIN sheep[e]}

\* the step is an update_ufo in which the Ufo, its abduction timer finished,
\* is over its target e and asks for the abduction
AbductionRequest(e) ==
    /\ \E arrives \in BOOLEAN : UpdateUfo(arrives)
    /\ ufo.post_abduction_pause_timer.finished
    /\ ufo.target = e
    /\ sheep[e] # NoSheep
    /\ DistSq(sheep[e].pos, ufo.pos) <= UFO_TARGET_REACHED_DISTANCE_SQ
    /\ ufo.abduction_timer.finished

\* C14: start_abduction on a sheep that is BeingCounted or BeingAbducted
\* returns false and leaves its state unchanged (the Ufo's timers are not
\* reset); on a sheep in any other state it sets BeingAbducted and returns
\* true; no step takes a sheep from BeingCounted to BeingAbducted
C14_StartAbduction ==
    [][\A e \in Herded :
          /\ LET r == start_abduction(sheep[e])
             IN  IF sheep[e].state \in {"BeingCounted", "BeingAbducted"}
                 THEN ~r.started /\ r.sheep = sheep[e]
                 ELSE r.started /\ r.sheep.state = "BeingAbducted"
          /\ AbductionRequest(e) =>
                IF sheep[e].state \in {"BeingCounted", "BeingAbducted"}
                THEN /\ sheep' = sheep
                     /\ ufo'.abduction_timer = ufo.abduction_timer
                     /\ ufo'.post_abduction_pause_timer = ufo.post_abduction_pause_timer
                ELSE /\ sheep'[e].state = "BeingAbducted"
                     /\ ufo'.abduction_timer.elapsed = 0
                     /\ ~ufo'.post_abduction_pause_timer.finished
          /\ sheep[e].state = "BeingCounted" =>
                sheep'[e] = NoSheep \/ sheep'[e].state # "BeingAbducted"]_vars

\* the Ufo, its abduction timer finished, has been over a BeingCounted sheep
\* and has given up its target without resetting the timer
C14_Witness ==
    /\ ufo # NoUfo
    /\ ufo.target = NoTarget
    /\ ufo.abduction_timer.finished
    /\ ufo.post_abduction_pause_timer.finished
    /\ \E e \in Herded : sheep[e].state = "BeingCounted" /\ sheep[e].pos = ufo.pos

\* C15: a BeingAbducted sheep keeps that state until it is despawned: no bark,
\* goal check, state update or abduction request changes it; it is never
\* scored, even within the scoring distance of the goal; and the state update
\* sets its intent to its position
C15_AbductedAbsorbing ==
    [][\A e \in Herded :
          sheep[e].state = "BeingAbducted" =>
             /\ sheep'[e] = NoSheep \/ sheep'[e].state = "BeingAbducted"
             /\ \A i \in 1..Len(scored') : scored'[i].entity # e
             /\ GoalCheck => sheep'[e] = sheep[e]
             /\ \A player_pos \in PlayerSpots :
                   SheepStateUpdate(player_pos) /\ sheep[e].controllers
                      => sheep'[e].intent = sheep[e].pos]_vars

\* an abducted sheep within the scoring distance of the goal is still in the
\* world, its intent steered away from its position before the abduction and
\* set back to it since
C15_Witness ==
    \E e \in Herded :
        /\ sheep[e].state = "BeingAbducted"
        /\ DistSq(sheep[e].pos, GOAL_POSITION) < GOAL_SCORE_DIST_SQ
        /\ sheep[e].steers > 0
        /\ sheep[e].intent = sheep[e].pos

\* C16: a goal check marks BeingCounted every Wander, Evading or Spooked sheep
\* at a squared distance from the goal below GOAL_RADIUS^2, never a
\* BeingAbducted one, and nothing else takes a sheep into BeingCounted
C16_CountedByGoalCheck ==
    [][\A e \in Herded :
          /\ GoalCheck /\ sheep[e].state \in {"Wander", "Evading", "Spooked"}
                       /\ DistSq(sheep[e].pos, GOAL_POSITION) < GOAL_RADIUS * GOAL_RADIUS
                => sheep'[e] # NoSheep /\ sheep'[e].state = "BeingCounted"
          /\ sheep[e].state # "BeingCounted" /\ sheep'[e] # NoSheep
                                             /\ sheep'[e].state = "BeingCounted"
                => /\ GoalCheck
                   /\ sheep[e].state \in {"Wander", "Evading", "Spooked"}
                   /\ DistSq(sheep[e].pos, GOAL_POSITION) < GOAL_RADIUS * GOAL_RADIUS]_vars

\* a sheep marked BeingCounted inside the goal radius, outside the scoring
\* distance, next to an abducted sheep the goal check has left alone
C16_Witness ==
    \E e \in Herded :
        /\ sheep[e].state = "BeingCounted"
        /\ DistSq(sheep[e].pos, GOAL_POSITION) < GOAL_RADIUS * GOAL_RADIUS
        /\ DistSq(sheep[e].pos, GOAL_POSITION) >= GOAL_SCORE_DIST_SQ
        /\ sheep[e].steers = 0

\* C17: a BeingCounted sheep leaves that state only by being removed: bark,
\* the player coming near, abduction requests and leaving the goal radius do
\* not change it, and it is removed only by a goal check that finds it at a
\* squared distance from the goal below 1.5
C17_CountedUntilRemoved ==
    [][\A e \in Herded :
          sheep[e].state = "BeingCounted" =>
             IF sheep'[e] = NoSheep
             THEN GoalCheck /\ DistSq(sheep[e].pos, GOAL_POSITION) < GOAL_SCORE_DIST_SQ
             ELSE sheep'[e].state = "BeingCounted"]_vars

\* a sheep still BeingCounted outside the goal radius, after a state update
C17_Witness ==
    \E e \in Herded :
        /\ sheep[e].state = "BeingCounted"
        /\ DistSq(sheep[e].pos, GOAL_POSITION) >= GOAL_RADIUS * GOAL_RADIUS
        /\ sheep[e].steers > 0

\* the call has returned
Returned == evasion # NoEvasion /\ evasion.dir # NoVec

\* C21: pick_evasion_dir returns the preferred direction whenever
\* pos + preferred lies inside the bounds; otherwise it returns one of the
\* preferred direction, its two perpendiculars and its negation whose clamped
\* displacement from pos is the largest, and the preferred direction when
\* that one is among the largest
C21_LeastBlocked ==
    Returned =>
        LET pos == evasion.pos
            preferred == evasion.preferred
            bounds == evasion.bounds
        IN  IF InBoundsOf(bounds, Add(pos, preferred))
            THEN evasion.dir = preferred
            ELSE /\ LargestDisplacement(evasion.dir, pos, preferred, bounds)
                 /\ LargestDisplacement(preferred, pos, preferred, bounds)
                       => evasion.dir = preferred

\* a blocked call has kept the preferred direction on a tie of all four
\* candidates
C21_Witness ==
    /\ Returned
    /\ ~InBoundsOf(evasion.bounds, Add(evasion.pos, evasion.preferred))
    /\ LargestDisplacement(evasion.preferred, evasion.pos, evasion.preferred, evasion.bounds)
    /\ evasion.dir = evasion.preferred

\* the step is a state update, the player at player_pos, that finds sheep e
\* in the given state
Updates(e, state, player_pos) ==
    /\ \E wait \in WaitDraws : SheepStateUpdateAll(player_pos, wait)
    /\ sheep[e] # NoSheep
    /\ sheep[e].controllers
    /\ sheep[e].state = state

\* C24: an Evading sheep returns to Wander at the first state update in
\* which the player is not within sheep_interact_radius of it
C24_EvadingReleased ==
    [][\A e \in SheepIds, player_pos \in WatchPlayerSpots :
          Updates(e, "Evading", player_pos) /\ ~WithinInteract(sheep[e].pos, player_pos)
             => sheep'[e].state = "Wander"]_vars

\* C25: after a state update that finds the player within
\* sheep_interact_radius of an Evading sheep, the danger position stored in
\* its Evading state is the player's position
C25_DangerRefreshed ==
    [][\A e \in SheepIds, player_pos \in WatchPlayerSpots :
          Updates(e, "Evading", player_pos) /\ WithinInteract(sheep[e].pos, player_pos)
             => sheep'[e].state = "Evading" /\ sheep'[e].danger_pos = player_pos]_vars

\* C26: a sheep that returns from Evading to Wander has the shortened Wander
\* timer of 0.5 s, shorter than min_wait
C26_ShortenedWait ==
    [][\A e \in SheepIds, player_pos \in WatchPlayerSpots :
          Updates(e, "Evading", player_pos) /\ sheep'[e].state = "Wander"
             => /\ sheep'[e].timer.duration = RELEASE_WAIT
                /\ sheep'[e].timer.duration < min_wait]_vars

\* C27: without the well-trained charm, a state update keeps a Spooked sheep
\* Spooked, fleeing straight away from its danger position at
\* spooked_speed_mult, as long as its distance from the danger position
\* does not exceed sheep_interact_radius + 8, and returns it to Wander once
\* the distance exceeds that
C27_SpookedUntilBeyond ==
    [][\A e \in SheepIds, player_pos \in WatchPlayerSpots :
          Updates(e, "Spooked", player_pos) /\ ~is_charm_active(gs, "WellTrained")
             => IF DistSq(sheep[e].pos, sheep[e].danger_pos)
                      > (SHEEP_INTERACT_RADIUS + SPOOKED_RELEASE_EXTRA)
                        * (SHEEP_INTERACT_RADIUS + SPOOKED_RELEASE_EXTRA)
                THEN sheep'[e].state = "Wander"
                ELSE /\ sheep'[e].state = "Spooked"
                     /\ sheep'[e].danger_pos = sheep[e].danger_pos
                     /\ sheep'[e].intent
                           = Steer(sheep[e], Unit(sheep[e].danger_pos, sheep[e].pos)).intent
                     /\ sheep'[e].move_speed_mult = spooked_speed_mult(gs)]_vars

\* the step runs the given system of the frame under way
Runs(system) ==
    /\ tick # NoTick
    /\ system \in tick.todo
    /\ tick' # NoTick
    /\ system \notin tick'.todo

LateSystems == {"sheep_wander", "sheep_herding", "sheep_abduction_update"}

\* C22: in every tick the goal check has run when the state update runs,
\* and both have run when wander, herding and the abduction ascent run; a
\* sheep the goal check scores was BeingCounted before that goal check, so
\* it entered BeingCounted in an earlier tick; a scored sheep is gone and
\* makes no transition in the rest of the tick, and no other system than
\* the goal check takes a sheep that is not being abducted out of the world
C22_GoalCheckFirst ==
    [][tick # NoTick /\ tick' # NoTick
          => /\ "sheep_goal_check" \in tick'.todo
                   => "sheep_state_update" \in tick'.todo
             /\ "sheep_state_update" \in tick'.todo => LateSystems \subseteq tick'.todo
             /\ \A e \in SheepIds :
                   /\ sheep[e] = NoSheep /\ tick'.frame = tick.frame => sheep'[e] = NoSheep
                   /\ sheep[e] # NoSheep /\ sheep'[e] = NoSheep
                         => IF Runs("sheep_goal_check")
                            THEN sheep[e].state = "BeingCounted"
                            ELSE is_being_abducted(sheep[e])]_vars

\* a goal check of a later frame has scored a sheep, and the state update of
\* the frame has not run yet
C22_Witness ==
    /\ tick # NoTick
    /\ tick.frame > 1
    /\ "sheep_goal_check" \notin tick.todo
    /\ "sheep_state_update" \in tick.todo
    /\ scored # <<>>

\* sheep_wander chooses a heading for sheep e in the frame under way
HeadingChosen(e) ==
    /\ sheep[e] # NoSheep
    /\ sheep[e].controllers
    /\ sheep[e].state = "Wander"
    /\ ~sheep[e].timer.finished
    /\ TimerTick(sheep[e].timer, tick.delta).finished

\* C23: when sheep_wander chooses a heading in a tick, sheep_herding has
\* already run in that tick
C23_HerdingBeforeWander ==
    [][\A e \in SheepIds :
          Runs("sheep_wander") /\ HeadingChosen(e) => "sheep_herding" \notin tick.todo]_vars

Excluded(s) == s # NoSheep /\ s.state \in {"Spooked", "BeingCounted", "BeingAbducted"}

\* C28: after every state update, each sheep in Spooked, BeingCounted or
\* BeingAbducted has herd_dir zero, is not in the flocking snapshot and is
\* no neighbour of a sheep of the snapshot
C28_ExcludedZero ==
    [][Runs("sheep_state_update")
          => \A e \in SheepIds :
                Excluded(sheep'[e])
                   => /\ sheep'[e].herd_dir = Zero
                      /\ e \notin Snapshot(sheep')
                      /\ \A o \in Snapshot(sheep') : e \notin Neighbors(sheep', o)]_vars

\* the step is a flocking refresh: sheep_herding runs and its timer finishes
Refreshes == Runs("sheep_herding") /\ tick.herd_timer + tick.delta >= HERD_UPDATE_INTERVAL_SECS

\* C29: every flocking refresh advances the bucket from b to (b + 1) mod 4,
\* and gives every eligible sheep of the new bucket the herd_dir computed
\* from the flock at the refresh
C29_RoundRobin ==
    [][Refreshes
          => /\ tick'.herd_bucket = (tick.herd_bucket + 1) % HERD_UPDATE_BUCKETS
             /\ \A e \in SheepIds :
                   Eligible(sheep[e]) /\ EntityBits(e) % HERD_UPDATE_BUCKETS = tick'.herd_bucket
                      => sheep'[e].herd_dir = HerdDir(sheep, e)]_vars

\* C30: sheep_herding changes nothing but herd_dir, and the herd_dir of no
\* sheep that is outside Wander and Evading or outside the active bucket of
\* a refresh
C30_RefreshWritesBucket ==
    [][Runs("sheep_herding")
          => /\ UNCHANGED <<phase, next_phase, gs, round_stats, pool, round_info, scored,
                            mover, shop_offers, ufo, evasion>>
             /\ \A e \in SheepIds :
                   IF sheep[e] = NoSheep THEN sheep'[e] = NoSheep
                   ELSE /\ sheep'[e] # NoSheep
                        /\ sheep'[e] = [sheep[e] EXCEPT !.herd_dir = sheep'[e].herd_dir]
                        /\ sheep'[e].herd_dir # sheep[e].herd_dir
                              => /\ Refreshes
                                 /\ Eligible(sheep[e])
                                 /\ EntityBits(e) % HERD_UPDATE_BUCKETS
                                       = tick'.herd_bucket]_vars

\* the refresh of the frame has given a sheep of its bucket a herd_dir, next
\* to an eligible sheep of another bucket that it has left alone
C30_Witness ==
    /\ tick # NoTick
    /\ \E e \in tick.written, o \in SheepIds \ tick.written :
          /\ sheep[e] # NoSheep
          /\ sheep[e].herd_dir # Zero
          /\ Eligible(sheep[o])
          /\ sheep[o].herd_dir = Zero

\* C31: a refresh that finds no other eligible sheep within HERD_RADIUS of
\* an eligible sheep of its bucket sets the herd_dir of that sheep to zero,
\* also when the sheep is the only eligible one
C31_AloneZero ==
    [][Refreshes
          => \A e \in SheepIds :
                /\ Eligible(sheep[e])
                /\ EntityBits(e) % HERD_UPDATE_BUCKETS = tick'.herd_bucket
                /\ \A o \in Snapshot(sheep) \ {e} :
                      DistSq(sheep[o].pos, sheep[e].pos) > HERD_RADIUS * HERD_RADIUS
                => sheep'[e].herd_dir = Zero]_vars

\* the step is apply_hop_movement for the mover over delta_ms: the steps of
\* the mover that leave its count of steerings alone
HopStepOf(delta_ms) ==
    /\ mover # NoMover
    /\ mover' # NoMover
    /\ mover'.steers = mover.steers
    /\ mover' = apply_hop_movement(mover, delta_ms)

HopStep == \E delta_ms \in FrameDeltas : HopStepOf(delta_ms)

\* C33: a call of update starts a hop exactly when the mover is on the
\* ground, the countdown ticked by the call has finished and the intent the
\* call sees (clamped by apply_hop_movement) is more than 0.4 in squared
\* distance from the position; the hop then goes from the position to that
\* intent and the countdown restarts with hop_time_length.  In particular
\* no hop starts on the call that lands the hop before.
C33_HopStart ==
    [][\A delta_ms \in FrameDeltas :
          HopStepOf(delta_ms)
             => LET t == TimerTick(mover.timer, (delta_ms * mover.hop_speed_mult) \div 100)
                    intent == clamp_to_bounds(mover.intent)
                    started == mover'.hops = mover.hops + 1
                IN  /\ started <=> /\ ~mover.airborne
                                   /\ t.finished
                                   /\ DistSq(intent, mover.pos) > HOP_THRESHOLD_SQ
                    /\ started
                          => /\ mover'.airborne
                             /\ mover'.current_hop_src = mover.pos
                             /\ mover'.current_hop_dest = intent
                             /\ mover'.timer = Timer(mover.hop_time_length)
                    /\ mover.airborne /\ ~mover'.airborne => ~started
                    /\ ~started => mover'.hops = mover.hops
                                   /\ (mover'.airborne => mover.airborne)]_vars

\* the mover has landed from a hop and has just started the next one
C33_Witness ==
    /\ mover # NoMover
    /\ mover.airborne
    /\ mover.hops = 2
    /\ mover.timer.elapsed = 0
    /\ mover.pos = mover.current_hop_src
    /\ mover.current_hop_dest # mover.current_hop_src

\* C34: the step of apply_hop_movement that ends a hop leaves the mover at
\* its clamped hop destination, at height 0
C34_LandsAtDest ==
    [][HopStep /\ mover.airborne /\ ~mover'.airborne
          => /\ mover'.pos = clamp_to_bounds(mover'.current_hop_dest)
             /\ mover'.y = 0]_vars

\* C32: two sheep at most HERD_RADIUS apart stand in cells that differ by at
\* most 1 on each axis, so the scan of the nine cells around a sheep finds
\* every eligible sheep within HERD_RADIUS of it (the flocks followed stay
\* below the cap of 20 neighbours)
C32_ScanCoversRadius ==
    \A e \in Alive(sheep) :
        /\ \A o \in Alive(sheep) :
              DistSq(sheep[o].pos, sheep[e].pos) <= HERD_RADIUS * HERD_RADIUS
                 => /\ spatial_cell(sheep[o].pos)[1] - spatial_cell(sheep[e].pos)[1] \in -1..1
                    /\ spatial_cell(sheep[o].pos)[2] - spatial_cell(sheep[e].pos)[2] \in -1..1
        /\ Eligible(sheep[e])
              => Neighbors(sheep, e)
                    = {o \in Snapshot(sheep) \ {e} :
                          DistSq(sheep[o].pos, sheep[e].pos) <= HERD_RADIUS * HERD_RADIUS}

\* a refresh has given a sheep in a cell of negative coordinates a herd_dir
\* from a neighbour exactly HERD_RADIUS away in the next cell
C32_Witness ==
    /\ tick # NoTick
    /\ \E e \in tick.written, o \in Alive(sheep) :
          /\ sheep[e] # NoSheep
          /\ spatial_cell(sheep[e].pos)[1] = -1
          /\ spatial_cell(sheep[o].pos)[1] = 0
          /\ DistSq(sheep[o].pos, sheep[e].pos) = HERD_RADIUS * HERD_RADIUS
          /\ sheep[e].herd_dir = Unit(sheep[e].pos, sheep[o].pos)

C36_RejectedPurchase ==
    /\ gs.money >= 0
    /\ \A slot \in 0..5, roll \in BOOLEAN :
          LET inside == slot \in 1..Len(shop_offers)
              item == IF inside THEN shop_offers[slot] ELSE NoItem
              rejected == \/ item = NoItem
                          \/ gs.money < price(item)
                          \/ item.kind = "Charm" /\ charms_full(gs)
              r == buy_shop_item(gs, shop_offers, slot, roll)
          IN  IF rejected
              THEN r = [gs |-> gs, offers |-> shop_offers]
              ELSE /\ r.gs.money = gs.money - price(item)
                   /\ r.gs.money >= 0
                   /\ r.offers = [shop_offers EXCEPT ![slot] = NoItem]
                   /\ buy_shop_item(r.gs, r.offers, slot, roll) = r

\* an offer has been bought, and the money left is below the price of an
\* offer that remains
C36_Witness ==
    /\ phase = "Shop"
    /\ \E slot \in 1..Len(shop_offers) : shop_offers[slot] = NoItem
    /\ \E slot \in 1..Len(shop_offers) :
          shop_offers[slot] # NoItem /\ gs.money < price(shop_offers[slot])
    /\ \E slot \in 1..Len(shop_offers) :
          shop_offers[slot] # NoItem /\ shop_offers[slot].kind = "Charm" /\ charms_full(gs)

\* C37: a Red sheep counted first in its round with RedToGold owned finds
\* red_sheep_count at 1 or more, also with Cloning or HalfTimeDoubleSheep
\* owned, and no count of a Red sheep wraps the tally round: it leaves at most
\* one more than it found
C37_RedNeverUnderflows ==
    \A en \in ScoredEntries :
        en.sheep.color = "Red" /\ Owned(en, "RedToGold")
           => /\ FirstCounted(en) => en.before.gs.red_sheep_count >= 1
              /\ en.after.gs.red_sheep_count <= en.before.gs.red_sheep_count + 1

\* the first sheep counted of a round of doubled spawn is Red and takes the
\* Red tally from 1 to 0 while the second Red sheep of the round is still out
C37_Witness ==
    /\ Len(scored) = 1
    /\ scored[1].sheep.color = "Red"
    /\ Owned(scored[1], "RedToGold")
    /\ Owned(scored[1], "HalfTimeDoubleSheep")
    /\ ~Owned(scored[1], "Cloning")
    /\ FirstCounted(scored[1])
    /\ scored[1].before.gs.red_sheep_count = 1
    /\ gs.red_sheep_count = 0
    /\ pool["Red"] = 1

C39_AbductionsApart ==
    [][/\ ~ufo'.post_abduction_pause_timer.finished => ufo'.target = NoTarget
       /\ \A e \in SheepIds :
             Abducts(e)
                => /\ ufo.post_abduction_pause_timer.finished
                   /\ ufo.target = e
                   /\ DistSq(sheep[e].pos, ufo.pos) <= UFO_TARGET_REACHED_DISTANCE_SQ
                   /\ ufo.abduction_timer.finished
                   /\ start_abduction(sheep[e]).started
                   /\ ufo'.abduction_timer = Timer(UFO_ABDUCTION_SECONDS)
                   /\ ufo'.post_abduction_pause_timer = Timer(UFO_POST_ABDUCTION_PAUSE_SECONDS)
       /\ \A i, j \in 1..Len(tick'.abductions) :
             i < j => tick'.abductions[j] - tick'.abductions[i] >= UFO_ABDUCTION_SECONDS]_vars

\* the Ufo has started its second abduction, and is in the pause after it
C39_Witness ==
    /\ tick # NoTick
    /\ "abductions" \in DOMAIN tick
    /\ Len(tick.abductions) = 2
    /\ ~ufo.post_abduction_pause_timer.finished
    /\ ufo.target = NoTarget
    /\ \A e \in SheepIds : sheep[e] # NoSheep /\ is_being_abducted(sheep[e])

\* C40: the height of a sheep that is being abducted never decreases; an
\* abduction update raises it by the ascent speed times the frame time, up to
\* UFO_HEIGHT, and removes the sheep when that reaches UFO_HEIGHT - 2, not
\* before; and the sheep is removed in the end
C40_AscentToRemoval ==
    /\ [][\A e \in SheepIds :
             sheep[e] # NoSheep /\ is_being_abducted(sheep[e])
                => LET y == Min(sheep[e].y + (ABDUCTION_ASCENT_SPEED * tick.delta) \div 1000,
                                UFO_HEIGHT)
                   IN  IF sheep'[e] = NoSheep
                       THEN y >= UFO_HEIGHT - 20
                       ELSE /\ sheep'[e].y >= sheep[e].y
                            /\ sheep'[e].y # sheep[e].y
                                  => sheep'[e].y = y /\ y < UFO_HEIGHT - 20]_vars
    /\ \A e \in SheepIds :
          (sheep[e] # NoSheep /\ is_being_abducted(sheep[e])) ~> (sheep[e] = NoSheep)

====
